---- MODULE Spec2Model ----
(***************************************************************************)
(* Model of the SQL lineage extraction of the data-lineage tracking        *)
(* system: the client-side parser and visualizer (src/unnamed/part_002,    *)
(* classes SQLLineageParser and SQLLineageVisualizer, lines 1107-2241)     *)
(* and the remote-backed front end (src/backend/static/script.js).         *)
(*                                                                         *)
(* A text is a sequence of tokens.  A token is a word (a maximal run of    *)
(* [a-zA-Z0-9_] starting with a letter or _), one whitespace character     *)
(* (" " or "\n"), or one other character.  The regular expressions of the  *)
(* source are translated to matchers over such sequences; every regular    *)
(* expression of the source that mentions a keyword is matched against     *)
(* whole words only (the vocabulary below holds no word that contains a    *)
(* keyword as a proper substring, which is where a character-level match   *)
(* would differ).                                                          *)
(***************************************************************************)
EXTENDS Integers, Sequences, FiniteSets, TLC

VARIABLES
    sqlInput,      \* value of the #sql-input textarea (a text)
    tables,        \* SQLLineageParser.tables of the long-lived parser
    currentData,   \* SQLLineageVisualizer.currentData: Null or a graph
    loading,       \* the #loading indicator is visible
    errorMsg,      \* last message handed to showError ("" if none)
    query,         \* the text handed to the last parseSQL call (history)
    calls,         \* number of parses done on this instance (bounded)
    requests,      \* script.js: the parseSQL invocations, in order of initiation
    views          \* script.js: what the graph, details and JSON panes show

vars == <<sqlInput, tables, currentData, loading, errorMsg, query, calls, requests, views>>

Null == [nodes |-> <<>>, edges |-> <<>>, isNull |-> TRUE]

-----------------------------------------------------------------------------
(* Vocabulary: the words of the model, each row holding the toLowerCase()  *)
(* image, the toUpperCase() image and the other spellings of one word.     *)

SP == " "
NL == "\n"

CaseRows ==
    { <<"select", "SELECT">>, <<"from", "FROM">>, <<"join", "JOIN">>,
      <<"left", "LEFT">>, <<"inner", "INNER">>, <<"on", "ON">>, <<"as", "AS">>,
      <<"where", "WHERE">>, <<"group", "GROUP">>, <<"order", "ORDER">>,
      <<"by", "BY">>, <<"having", "HAVING">>, <<"limit", "LIMIT">>,
      <<"and", "AND">>, <<"update", "UPDATE">>, <<"insert", "INSERT">>,
      <<"into", "INTO">>, <<"set", "SET">>, <<"count", "COUNT">>,
      <<"users", "USERS", "Users">>, <<"orders", "ORDERS">>, <<"items", "ITEMS">>,
      <<"u", "U">>, <<"o", "O">>, <<"i", "I">>, <<"id", "ID">>, <<"x", "X">>,
      <<"y", "Y">>, <<"uid", "UID">>, <<"n", "N">>, <<"k", "K">>,
      <<"main_query", "MAIN_QUERY">>, <<"extract", "EXTRACT">>,
      <<"year", "YEAR">>, <<"coalesce", "COALESCE">>, <<"d", "D">>,
      <<"sales", "SALES">> }

Spellings(row) == { row[k] : k \in DOMAIN row }

Words == UNION { Spellings(row) : row \in CaseRows }

CaseTable == [w \in Words |-> CHOOSE row \in CaseRows : w \in Spellings(row)]

\* the k-th image of token t under the table
Image(table, t, k) == IF t \in DOMAIN table THEN table[t][k] ELSE t

\* String.prototype.toLowerCase / toUpperCase on one token
Lower(t) == Image(CaseTable, t, 1)
Upper(t) == Image(CaseTable, t, 2)

\* toLowerCase on a string held as a token sequence
LowerSeq(s) == [j \in 1..Len(s) |-> Lower(s[j])]

\* the tokens that are no word: white space and single other characters
Others == { SP, NL, ".", ",", "(", ")", "=", "+", "*", ";", ">", "1", "-" }

\* \s
IsWs(t) == t = SP \/ t = NL

\* [a-zA-Z_][a-zA-Z0-9_]* matched against one whole token
IsIdent(t) == t \notin Others

\* a case-insensitive keyword of a regular expression with the i flag
Kw(s, i, word) == i >= 1 /\ i <= Len(s) /\ Upper(s[i]) = word

RECURSIVE SkipWs(_, _)
\* \s* from position i: the first position at or after i that holds no whitespace
SkipWs(s, i) == IF i <= Len(s) /\ IsWs(s[i]) THEN SkipWs(s, i + 1) ELSE i

RECURSIVE SkipWsBack(_, _)
SkipWsBack(s, i) == IF i >= 1 /\ IsWs(s[i]) THEN SkipWsBack(s, i - 1) ELSE i

\* String.prototype.trim
Trim(s) ==
    LET a == SkipWs(s, 1)
        b == SkipWsBack(s, Len(s))
    IN  IF a > b THEN <<>> ELSE SubSeq(s, a, b)

\* the leftmost position k >= i of s at which P holds, 0 if there is none
First(s, i, P(_, _)) ==
    IF \E k \in i..Len(s) : P(s, k)
    THEN CHOOSE k \in i..Len(s) : P(s, k) /\ \A m \in i..(k - 1) : ~P(s, m)
    ELSE 0

\* a whitespace that continues a run
RunTail(pair) == pair[2]

NotRunTail(pair) == ~RunTail(pair)

\* replace(/\s+/g, ' '): each run of whitespace becomes one space
Collapse(s) ==
    LET marked == [k \in 1..Len(s) |->
                      <<s[k], IsWs(s[k]) /\ k > 1 /\ IsWs(s[k - 1])>>]
        kept == SelectSeq(marked, NotRunTail)
    IN  [k \in 1..Len(kept) |-> IF IsWs(kept[k][1]) THEN SP ELSE kept[k][1]]

\* sqlQuery.trim().replace(/\s+/g, ' ')
CleanQuery(s) == Collapse(Trim(s))


-----------------------------------------------------------------------------
(* Small string and container helpers.                                     *)

\* Array.prototype.includes
Includes(seq, e) == \E j \in 1..Len(seq) : seq[j] = e

\* if (!arr.includes(e)) arr.push(e)
PushNew(seq, e) == IF Includes(seq, e) THEN seq ELSE Append(seq, e)

\* Set.prototype.add on a Set held as the sequence of its insertion order
SetAdd(seq, e) == PushNew(seq, e)

\* Map.prototype.set / obj[k] = v on a map held as a function
MapSet(m, k, v) == (k :> v) @@ m

\* Map.prototype.has
MapHas(m, k) == k \in DOMAIN m

EmptyMap == <<>>

IsDot(s, k) == s[k] = "."

\* position of the last "." of s, 0 if there is none
LastDot(s) ==
    IF \E k \in 1..Len(s) : IsDot(s, k)
    THEN CHOOSE k \in 1..Len(s) : IsDot(s, k) /\ \A m \in (k + 1)..Len(s) : ~IsDot(s, m)
    ELSE 0

\* position p if there is one (p # 0), the position after the end of s if not
OrEnd(s, p) == IF p = 0 THEN Len(s) + 1 ELSE p

\* position of the first "." at or after i, Len(s)+1 if there is none
NextDot(s, i) == OrEnd(s, First(s, i, IsDot))

\* str.split('.').pop()
SplitPop(s) == SubSeq(s, LastDot(s) + 1, Len(s))

\* str.split('.')[0] and str.split('.')[1] ("undefined" is the empty text)
SplitPart0(s) == SubSeq(s, 1, NextDot(s, 1) - 1)
PartAfter(s, d) ==
    IF d > Len(s) THEN <<>> ELSE SubSeq(s, d + 1, NextDot(s, d + 1) - 1)

SplitPart1(s) == PartAfter(s, NextDot(s, 1))

-----------------------------------------------------------------------------
(* SQLLineageParser (src/unnamed/part_002, 1107-1350).                     *)

Keywords ==
    { "SELECT", "FROM", "WHERE", "JOIN", "INNER", "LEFT", "RIGHT", "FULL",
      "ON", "AND", "OR", "NOT", "NULL", "TRUE", "FALSE", "COUNT", "SUM",
      "AVG", "MIN", "MAX", "GROUP", "BY", "ORDER", "HAVING", "LIMIT",
      "DISTINCT", "AS", "CASE", "WHEN", "THEN", "ELSE", "END", "LIKE",
      "IN", "BETWEEN", "EXISTS", "ALL", "ANY", "SOME", "UNION", "INTERSECT",
      "EXCEPT", "INSERT", "UPDATE", "DELETE", "CREATE", "ALTER", "DROP",
      "TABLE", "VIEW", "INDEX", "DATABASE", "SCHEMA", "PRIMARY", "KEY",
      "FOREIGN", "REFERENCES", "CONSTRAINT", "UNIQUE", "CHECK", "DEFAULT",
      "AUTO_INCREMENT", "IDENTITY", "TIMESTAMP", "DATETIME", "DATE", "TIME",
      "VARCHAR", "CHAR", "TEXT", "INT", "INTEGER", "BIGINT", "SMALLINT",
      "DECIMAL", "NUMERIC", "FLOAT", "DOUBLE", "BOOLEAN", "BOOL" }

\* keywords.includes(word.toUpperCase()), word a string held as a token sequence
isSQLKeyword(name) == Len(name) = 1 /\ Upper(name[1]) \in Keywords

\* /^[a-zA-Z_][a-zA-Z0-9_]*$/.test(name) && !this.isSQLKeyword(name)
isValidColumnName(name) ==
    Len(name) = 1 /\ IsIdent(name[1]) /\ ~isSQLKeyword(name)

\* ([a-zA-Z_][a-zA-Z0-9_]*(?:\.[a-zA-Z_][a-zA-Z0-9_]*)?) starting at j:
\* the position of its last token
TableRefEnd(s, j) ==
    IF j + 2 <= Len(s) /\ s[j + 1] = "." /\ IsIdent(s[j + 2]) THEN j + 2 ELSE j

\* <keyword>\s+([a-zA-Z_]...) matches with the keyword at i
KwTableAt(s, i, word) ==
    /\ Kw(s, i, word)
    /\ i + 1 <= Len(s) /\ IsWs(s[i + 1])
    /\ LET j == SkipWs(s, i + 1) IN j <= Len(s) /\ IsIdent(s[j])

\* leftmost match of <keyword>\s+(table) at or after i, 0 if there is none
FirstKwTable(s, i, word) ==
    LET At(t, k) == KwTableAt(t, k, word) IN First(s, i, At)

\* the captured group of a match at i, after .split('.').pop()
KwTableName(s, i) == s[TableRefEnd(s, SkipWs(s, i + 1))]

RECURSIVE JoinTableNames(_, _)
\* joinRegex.exec loop of extractTablesAndColumns: the tables of the
\* successive non-overlapping matches from position i
JoinTableNames(s, i) ==
    LET j == FirstKwTable(s, i, "JOIN")
    IN  IF j = 0 THEN <<>>
        ELSE <<KwTableName(s, j)>>
             \o JoinTableNames(s, TableRefEnd(s, SkipWs(s, j + 1)) + 1)

\* the FROM part of extractTablesAndColumns, the match being at f (0: none)
FromTable(thisTables, sql, f) ==
    IF f = 0 THEN thisTables ELSE PushNew(thisTables, KwTableName(sql, f))

RECURSIVE PushAllNew(_, _, _)
PushAllNew(acc, seq, j) ==
    IF j > Len(seq) THEN acc
    ELSE IF Includes(acc, seq[j]) THEN PushAllNew(acc, seq, j + 1)
    ELSE PushAllNew(Append(acc, seq[j]), seq, j + 1)

\* extractTablesAndColumns pushing every JOIN table, listed or not
extractTablesAndColumns_pushesAll(thisTables, sql) ==
    FromTable(thisTables, sql, FirstKwTable(sql, 1, "FROM")) \o JoinTableNames(sql, 1)

\* the FROM and JOIN part of extractTablesAndColumns: this.tables afterwards
extractTablesAndColumns(thisTables, sql) ==
    PushAllNew(FromTable(thisTables, sql, FirstKwTable(sql, 1, "FROM")),
               JoinTableNames(sql, 1), 1)

\* SQLLineageParser.parseSQL: the mutant keeps the tables of the last call
parseSQL_keepsTables(thisTables, sqlQuery) ==
    extractTablesAndColumns(thisTables, CleanQuery(sqlQuery))

\* SQLLineageParser.parseSQL: this.tables after the call (= result.tables)
parseSQL(thisTables, sqlQuery) ==
    LET reset == <<>>
    IN  extractTablesAndColumns(reset, CleanQuery(sqlQuery))

-----------------------------------------------------------------------------
(* SQLLineageParser.splitSelectClause and                                  *)
(* extractOriginalColumnFromExpression (part_002, 1210-1260).              *)

\* parenCount when the loop reaches position k
ParenCount(s, k) ==
    Cardinality({m \in 1..(k - 1) : s[m] = "("})
    - Cardinality({m \in 1..(k - 1) : s[m] = ")"})

\* char === ',' && parenCount === 0
SplitComma(s, k) == s[k] = "," /\ ParenCount(s, k) = 0

RECURSIVE SplitFrom(_, _)
\* the parts pushed from position i on: one per separating comma, and the
\* rest if it is not blank
SplitFrom(s, i) ==
    LET c == First(s, i, SplitComma)
    IN  IF c = 0
        THEN IF SkipWs(s, i) <= Len(s) THEN <<Trim(SubSeq(s, i, Len(s)))>> ELSE <<>>
        ELSE <<Trim(SubSeq(s, i, c - 1))>> \o SplitFrom(s, c + 1)

splitSelectClause(selectClause) == SplitFrom(selectClause, 1)

\* \s+AS\s+[a-zA-Z_][a-zA-Z0-9_]* matches from position p
AsSuffixAt(s, p) ==
    /\ p <= Len(s) /\ IsWs(s[p])
    /\ LET a == SkipWs(s, p)
       IN  /\ Kw(s, a, "AS")
           /\ a + 1 <= Len(s) /\ IsWs(s[a + 1])
           /\ LET b == SkipWs(s, a + 1) IN b <= Len(s) /\ IsIdent(s[b])

FirstAsSuffix(s, p) == First(s, p, AsSuffixAt)

\* expr.replace(/\s+AS\s+[a-zA-Z_][a-zA-Z0-9_]*/i, '')
RemoveAsAt(s, p) ==
    IF p = 0 THEN s
    ELSE SubSeq(s, 1, p - 1) \o SubSeq(s, SkipWs(s, SkipWs(s, p) + 1) + 1, Len(s))

RemoveAs(s) == RemoveAsAt(s, FirstAsSuffix(s, 1))

CloseOrBreak(s, k) == s[k] = ")" \/ s[k] = NL

\* (.*?)\) from position i: the position of the first ")" with no line
\* break before it (the regular expression has no s flag), 0 if none
ParenAt(s, k) == IF k # 0 /\ s[k] = ")" THEN k ELSE 0

CloseParen(s, i) == ParenAt(s, First(s, i, CloseOrBreak))

\* [a-zA-Z_][a-zA-Z0-9_]*\s*\((.*?)\) matches with the name at i
FuncAt(s, i) ==
    /\ IsIdent(s[i])
    /\ LET q == SkipWs(s, i + 1)
       IN  q <= Len(s) /\ s[q] = "(" /\ CloseParen(s, q + 1) # 0

FirstFunc(s, i) == First(s, i, FuncAt)

\* the captured group of the match at i
FuncArg(s, i) ==
    LET q == SkipWs(s, i + 1)
    IN  SubSeq(s, q + 1, CloseParen(s, q + 1) - 1)

\* extractOriginalColumnFromExpression; null and '' are both the empty text
\* lines 1215-1218: the argument of the function call at f (0: none), if
\* it is not empty
FuncArgOr(cleanExpr, f) ==
    IF f # 0 /\ FuncArg(cleanExpr, f) # <<>> THEN FuncArg(cleanExpr, f) ELSE cleanExpr

\* lines 1221-1231
ColumnOf(cleanExpr) ==
    IF Includes(cleanExpr, ".") THEN Trim(SplitPop(cleanExpr))
    ELSE IF isValidColumnName(cleanExpr) THEN cleanExpr
    ELSE <<>>

WithoutFunc(cleanExpr) == FuncArgOr(cleanExpr, FirstFunc(cleanExpr, 1))

extractOriginalColumnFromExpression(expr) == ColumnOf(WithoutFunc(RemoveAs(expr)))

-----------------------------------------------------------------------------
(* SQLLineageVisualizer helpers (part_002, 1683-1797).                     *)

\* \s*(?:AS\s+)?([a-zA-Z_][a-zA-Z0-9_]*)? after a table ending at e: the
\* position where the optional alias would start
AsOrHere(s, a) ==
    IF Kw(s, a, "AS") /\ a + 1 <= Len(s) /\ IsWs(s[a + 1]) THEN SkipWs(s, a + 1) ELSE a

AliasStart(s, e) == AsOrHere(s, SkipWs(s, e + 1))

\* the optional group ([a-zA-Z_][a-zA-Z0-9_]*)? matches at b
AliasAt(s, b) == b <= Len(s) /\ IsIdent(s[b])

\* fromMatch[2] || tableName, the table ending at e and the alias group at b
AliasOr(s, e, b) == IF AliasAt(s, b) THEN s[b] ELSE s[e]

\* aliases[alias.toLowerCase()] = tableName for the table ending at e
AliasEntryAt(al, s, e) == MapSet(al, Lower(AliasOr(s, e, AliasStart(s, e))), s[e])

\* the same for the match with its keyword at i
AliasEntry(al, s, i) == AliasEntryAt(al, s, TableRefEnd(s, SkipWs(s, i + 1)))

\* where the scan goes on after a match whose alias group is at b
AfterAlias(s, b) == IF AliasAt(s, b) THEN b + 1 ELSE b

AliasMatchEnd(s, i) == AfterAlias(s, AliasStart(s, TableRefEnd(s, SkipWs(s, i + 1))))

RECURSIVE JoinAliases(_, _, _)
JoinAliases(al, s, i) ==
    LET j == FirstKwTable(s, i, "JOIN")
    IN  IF j = 0 THEN al
        ELSE JoinAliases(AliasEntry(al, s, j), s, AliasMatchEnd(s, j))

\* the FROM part of extractTableAliases, the match being at f (0: none)
FromAlias(sql, f) == IF f = 0 THEN EmptyMap ELSE AliasEntry(EmptyMap, sql, f)

\* extractTableAliases: lowercase alias -> table name
extractTableAliases(sql) ==
    JoinAliases(FromAlias(sql, FirstKwTable(sql, 1, "FROM")), sql, 1)

\* Lookup without the alias map: the qualifier is taken for the table
Lookup_ignoresAliases(tableAliases, key, tableOrAlias) == tableOrAlias

\* tableAliases[tableOrAlias.toLowerCase()] || tableOrAlias
Lookup(tableAliases, key, tableOrAlias) ==
    IF MapHas(tableAliases, key) THEN tableAliases[key] ELSE tableOrAlias

Resolve(tableAliases, tableOrAlias) ==
    Lookup(tableAliases, Lower(tableOrAlias), tableOrAlias)

\* ([a-zA-Z_][a-zA-Z0-9_]*)\s*\.\s*([a-zA-Z_][a-zA-Z0-9_]*) matches at i
QualRefAt(s, i) ==
    /\ IsIdent(s[i])
    /\ LET d == SkipWs(s, i + 1)
       IN  /\ d <= Len(s) /\ s[d] = "."
           /\ LET c == SkipWs(s, d + 1) IN c <= Len(s) /\ IsIdent(s[c])

QualRefEnd(s, i) == SkipWs(s, SkipWs(s, i + 1) + 1)

RECURSIVE QualRefs(_, _, _)
\* the successive matches of tableColumnRegex from i, each resolved:
\* <<actualTableName, columnName>>
QualRefs(s, i, tableAliases) ==
    LET m == First(s, i, QualRefAt)
    IN  IF m = 0 THEN <<>>
        ELSE <<<<Resolve(tableAliases, s[m]), s[QualRefEnd(s, m)]>>>>
             \o QualRefs(s, QualRefEnd(s, m) + 1, tableAliases)

\* `${actualTableName}.${columnName}`
QualifiedName(ref) == <<ref[1], ".", ref[2]>>

RECURSIVE CollectNames(_, _, _)
CollectNames(acc, refs, j) ==
    IF j > Len(refs) THEN acc
    ELSE IF Includes(acc, QualifiedName(refs[j])) THEN CollectNames(acc, refs, j + 1)
    ELSE CollectNames(Append(acc, QualifiedName(refs[j])), refs, j + 1)

\* extractTableColumnReferences: qualifiedNamesArray afterwards (from [])
QualifiedNames(expression, tableAliases) ==
    CollectNames(<<>>, QualRefs(expression, 1, tableAliases), 1)

\* tableColumnMap is an object held as the sequence of its
\* <<key, columns>> entries in insertion order
HasKey(m, t) == \E j \in 1..Len(m) : m[j][1] = t

\* if (!tableColumnMap[t].includes(c)) tableColumnMap[t].push(c)
AddColumn(m, t, c) ==
    [j \in 1..Len(m) |-> IF m[j][1] = t THEN <<t, PushNew(m[j][2], c)>> ELSE m[j]]

RECURSIVE CollectMap(_, _, _)
CollectMap(m, refs, j) ==
    IF j > Len(refs) THEN m
    ELSE IF HasKey(m, refs[j][1])
    THEN CollectMap(AddColumn(m, refs[j][1], refs[j][2]), refs, j + 1)
    ELSE CollectMap(Append(m, <<refs[j][1], <<refs[j][2]>>>>), refs, j + 1)

\* extractTableColumnReferences: tableColumnMap afterwards (from {})
TableColumnMap(expression, tableAliases) ==
    CollectMap(<<>>, QualRefs(expression, 1, tableAliases), 1)

-----------------------------------------------------------------------------
(* extractJoinConditions (part_002, 1768-1797).                            *)

\* the alternatives of the lookahead, tried at r (just after a \s+ run):
\* INNER\s+JOIN|LEFT\s+JOIN|RIGHT\s+JOIN|FULL\s+JOIN|JOIN|WHERE|GROUP\s+BY|
\* ORDER\s+BY|HAVING|LIMIT|;|$
\* the word that has to follow `word` and white space ("" if `word` starts
\* no alternative of two words)
SecondWord(word) ==
    IF word \in {"INNER", "LEFT", "RIGHT", "FULL"} THEN "JOIN"
    ELSE IF word \in {"GROUP", "ORDER"} THEN "BY" ELSE ""

\* an alternative matches at r <= Len(s), word being s[r].toUpperCase()
StopWord(s, r, word) ==
    \/ s[r] = ";"
    \/ word \in {"JOIN", "WHERE", "HAVING", "LIMIT"}
    \/ /\ r + 1 <= Len(s) /\ IsWs(s[r + 1])
       /\ Kw(s, SkipWs(s, r + 1), SecondWord(word))

JoinStop(s, r) == r > Len(s) \/ StopWord(s, r, Upper(s[r]))

\* \s+(?:...) matches at k
OnStopAt(s, k) == IsWs(s[k]) /\ JoinStop(s, SkipWs(s, k))

OnStopOrBreak(s, k) == OnStopAt(s, k) \/ s[k] = NL

\* (.*?)(?=\s+(?:...)) from position e: the position just after the
\* captured ON clause, 0 if the pattern does not match.  The capture holds
\* no line break (no s flag) and is followed by at least one whitespace.
StopAt(s, k) == IF k # 0 /\ OnStopAt(s, k) THEN k ELSE 0

OnClauseEnd(s, e) == StopAt(s, First(s, e, OnStopOrBreak))

\* (.*?)(?=...) matches from c
OnCapture(s, c) == IF c <= Len(s) /\ OnClauseEnd(s, c) # 0 THEN c ELSE 0

\* ON\s+(.*?)(?=...) matches with ON at o
OnAt(s, o) ==
    IF Kw(s, o, "ON") /\ o + 1 <= Len(s) /\ IsWs(s[o + 1])
    THEN OnCapture(s, SkipWs(s, o + 1)) ELSE 0

\* \s+ON\s+(.*?)(?=...) after the token at x: the position of the first
\* token of the captured clause, 0 if there is no match
OnClauseStart(s, x) ==
    IF x + 1 <= Len(s) /\ IsWs(s[x + 1]) THEN OnAt(s, SkipWs(s, x + 1)) ELSE 0

\* (?:\s+AS\s+[a-zA-Z_][a-zA-Z0-9_]*)? after the table at t: the position of
\* the alias, 0 if the group does not match
JoinAsAlias(s, t) ==
    IF AsSuffixAt(s, t + 1) THEN SkipWs(s, SkipWs(s, t + 1) + 1) ELSE 0

\* the first alternative if it matches (is not 0), the second one if not
OrElse(first, second) == IF first # 0 THEN first ELSE second

\* the rest of the pattern after the table at t and the AS group at a
\* (0: the group did not match)
OnAfter(s, t, a) ==
    OrElse(IF a # 0 THEN OnClauseStart(s, a) ELSE 0, OnClauseStart(s, t))

\* the whole join pattern with JOIN at j: the position of the first token
\* of the captured ON clause, 0 if there is no match.  The table is one
\* identifier (no schema part); the optional AS group is tried first.
JoinOnStart(s, j) ==
    IF KwTableAt(s, j, "JOIN")
    THEN OnAfter(s, SkipWs(s, j + 1), JoinAsAlias(s, SkipWs(s, j + 1)))
    ELSE 0

\* ident\.ident\s*=\s*ident\.ident matches at i
PlainQualAt(s, i) ==
    /\ i + 2 <= Len(s)
    /\ IsIdent(s[i]) /\ s[i + 1] = "." /\ IsIdent(s[i + 2])

CondAt(s, i) ==
    /\ PlainQualAt(s, i)
    /\ LET q == SkipWs(s, i + 3)
       IN  q <= Len(s) /\ s[q] = "=" /\ PlainQualAt(s, SkipWs(s, q + 1))

CondRight(s, i) == SkipWs(s, SkipWs(s, i + 3) + 1)

JoinMatchAt(s, j) == JoinOnStart(s, j) # 0

RECURSIVE Conditions(_, _, _)
\* the conditionRegex.exec loop on one ON clause
Conditions(s, i, tableAliases) ==
    LET m == First(s, i, CondAt)
    IN  IF m = 0 THEN <<>>
        ELSE <<[leftColumnQualified |->
                    <<Resolve(tableAliases, s[m]), ".", s[m + 2]>>,
                rightColumnQualified |->
                    <<Resolve(tableAliases, s[CondRight(s, m)]), ".",
                      s[CondRight(s, m) + 2]>>]>>
             \o Conditions(s, CondRight(s, m) + 3, tableAliases)

RECURSIVE JoinConditionsFrom(_, _, _)
RECURSIVE JoinMatch(_, _, _)
RECURSIVE OnClause(_, _, _)
RECURSIVE OnClauseConditions(_, _, _, _)

\* the joinRegex.exec loop
JoinConditionsFrom(s, j, tableAliases) ==
    JoinMatch(s, First(s, j, JoinMatchAt), tableAliases)

\* the match with JOIN at m (0: no more match)
JoinMatch(s, m, tableAliases) ==
    IF m = 0 THEN <<>>
    ELSE OnClause(s, JoinOnStart(s, m), tableAliases)

\* its ON clause starts at c
OnClause(s, c, tableAliases) ==
    OnClauseConditions(s, c, OnClauseEnd(s, c), tableAliases)

\* match[1] is s from c to e - 1; the next match is looked for from e
OnClauseConditions(s, c, e, tableAliases) ==
    Conditions(SubSeq(s, c, e - 1), 1, tableAliases)
    \o JoinConditionsFrom(s, e, tableAliases)

extractJoinConditions(sql, tableAliases) == JoinConditionsFrom(sql, 1, tableAliases)

-----------------------------------------------------------------------------
(* The clause patterns of generateVisualizationData (part_002, 1486, 1640). *)

WsFromAt(s, p) == IsWs(s[p]) /\ Kw(s, SkipWs(s, p), "FROM")

\* \s+FROM: the first whitespace position at or after p whose run is
\* followed by FROM, 0 if none
WsFrom(s, p) == First(s, p, WsFromAt)

\* /SELECT\s+(.*?)\s+FROM/si matches with SELECT at i
SelectAt(s, i) ==
    /\ Kw(s, i, "SELECT")
    /\ i + 1 <= Len(s) /\ IsWs(s[i + 1])
    /\ LET c == SkipWs(s, i + 1)
       IN  WsFrom(s, c) # 0 \/ (c - i >= 3 /\ Kw(s, c, "FROM"))

FirstSelect(s, i) == First(s, i, SelectAt)

\* sqlQuery.match(/SELECT\s+(.*?)\s+FROM/si)?.[1], undefined being ''
\* the capture from c to just before the \s+FROM at p (0: empty capture)
Capture(s, c, p) == IF p = 0 THEN <<>> ELSE SubSeq(s, c, p - 1)

CaptureFrom(s, c) == Capture(s, c, WsFrom(s, c))

SelectMatch(s, i) == IF i = 0 THEN <<>> ELSE CaptureFrom(s, SkipWs(s, i + 1))

SelectClause(s) == SelectMatch(s, FirstSelect(s, 1))

\* (?:\s+GROUP|\s+ORDER|\s+HAVING|\s*;|\s*$) matches at e
WhereStop(s, e) ==
    LET r == SkipWs(s, e)
    IN  \/ r > Len(s)
        \/ s[r] = ";"
        \/ r > e /\ Upper(s[r]) \in {"GROUP", "ORDER", "HAVING"}

\* the end of the shortest capture that ends at or after e
WhereEnd(s, e) == OrEnd(s, First(s, e, WhereStop))

\* WHERE\s+(.+?) can start with WHERE at i
WhereAt(s, i) ==
    /\ Kw(s, i, "WHERE")
    /\ i + 1 <= Len(s) /\ IsWs(s[i + 1])
    /\ SkipWs(s, i + 1) <= Len(s)

FirstWhere(s, i) == First(s, i, WhereAt)

\* sqlQuery.match(/WHERE\s+(.+?)(?:...)/si)?.[1], undefined being ''
WhereCapture(s, c) == SubSeq(s, c, WhereEnd(s, c + 1) - 1)

WhereMatch(s, i) == IF i = 0 THEN <<>> ELSE WhereCapture(s, SkipWs(s, i + 1))

WhereClause(s) == WhereMatch(s, FirstWhere(s, 1))

\* /^(.*?)\s+AS\s+([a-zA-Z_][a-zA-Z0-9_]*)$/i on a trimmed part: the
\* position of AS, 0 if there is no match
AsAt(p, a) ==
    IF a >= 3 /\ Kw(p, a, "AS") /\ IsWs(p[a - 1])
       /\ ~Includes(SubSeq(p, 1, SkipWsBack(p, a - 1)), NL)
    THEN a ELSE 0

AsMatch(p) ==
    IF Len(p) >= 5 /\ IsIdent(p[Len(p)]) /\ IsWs(p[Len(p) - 1])
    THEN AsAt(p, SkipWsBack(p, Len(p) - 1))
    ELSE 0

\* asMatch[1].trim() and asMatch[2].trim().toLowerCase()
AsOriginalExpr(p) == SubSeq(p, 1, SkipWsBack(p, AsMatch(p) - 1))
AsAliasName(p) == <<Lower(p[Len(p)])>>

-----------------------------------------------------------------------------
(* generateVisualizationData (part_002, 1439-1678).  The locals of the     *)
(* function are the fields of one record that the successive loops update. *)

mainQueryNodeId == "query_main"

Node(id, name, type, isAlias, oqn) ==
    [id |-> id, name |-> name, type |-> type, isAlias |-> isAlias,
     originalQualifiedName |-> oqn]

Edge(source, target, type, label) ==
    [source |-> source, target |-> target, type |-> type, label |-> label]

\* NodeId without the counter: every id of a prefix is the same
NodeId_ignoresCounter(prefix, counter) == prefix \o "_0"

\* `table_${nodeIdCounter++}` and the like
NodeId(prefix, counter) == prefix \o "_" \o ToString(counter)

\* lines 1440-1451
GvdStart ==
    [nodes |-> <<Node(mainQueryNodeId, <<"Main", SP, "Query">>, "query", FALSE, <<>>)>>,
     edges |-> <<>>,
     nodeIdCounter |-> 0,
     nodeMap |-> MapSet(EmptyMap, "main_query", mainQueryNodeId),
     columnNodeIdMap |-> EmptyMap,
     aliasNodeIdMap |-> EmptyMap,
     resolvedColumnAliases |-> EmptyMap,
     outputColumns |-> <<>>,
     selectedOriginalQualifiedColumns |-> <<>>]

\* a new column node for key `key` named `name` (lines 1474-1481, 1519-1521,
\* 1541-1543, 1551-1553)
AddColumnNode(st, key, name, oqn) ==
    [st EXCEPT
        !.nodes = Append(@, Node(NodeId("col", st.nodeIdCounter), name, "column", FALSE, oqn)),
        !.columnNodeIdMap = MapSet(@, key, NodeId("col", st.nodeIdCounter)),
        !.nodeIdCounter = @ + 1]

RECURSIVE AddTables(_, _, _)
\* lines 1457-1461
AddTables(st, tbls, j) ==
    IF j > Len(tbls) THEN st
    ELSE AddTables(
            [st EXCEPT
                !.nodes = Append(@, Node(NodeId("table", st.nodeIdCounter),
                                         <<tbls[j]>>, "table", FALSE, <<>>)),
                !.nodeMap = MapSet(@, Lower(tbls[j]), NodeId("table", st.nodeIdCounter)),
                !.nodeIdCounter = @ + 1],
            tbls, j + 1)

RECURSIVE AddQualifiedColumns(_, _, _)
\* lines 1469-1483
AddQualifiedColumns(st, names, j) ==
    IF j > Len(names) THEN st
    ELSE LET q == names[j]
         IN  IF ~MapHas(st.columnNodeIdMap, LowerSeq(q))
             THEN AddQualifiedColumns(
                    AddColumnNode(st, LowerSeq(q),
                        SplitPart0(q) \o <<SP, ">", SP>> \o SplitPart1(q), q),
                    names, j + 1)
             ELSE AddQualifiedColumns(st, names, j + 1)

\* lines 1513-1524 and 1537-1546: the unqualified column of a SELECT item
InferredNode(st, key, inferredColumnName) ==
    IF ~MapHas(st.columnNodeIdMap, key)
    THEN AddColumnNode(st, key, inferredColumnName, inferredColumnName)
    ELSE st

InferredSelected(st, key, isOutput) ==
    [st EXCEPT
        !.selectedOriginalQualifiedColumns = SetAdd(@, key),
        !.outputColumns = IF isOutput THEN SetAdd(@, key) ELSE @]

AddInferred(st, inferredColumnName, isOutput) ==
    InferredSelected(
        InferredNode(st, LowerSeq(inferredColumnName), inferredColumnName),
        LowerSeq(inferredColumnName), isOutput)

\* lines 1506-1508: the alias maps to the first qualified reference
AliasOfQualified(st, key, aliasName) ==
    [st EXCEPT
        !.resolvedColumnAliases = MapSet(@, key, aliasName),
        !.selectedOriginalQualifiedColumns = SetAdd(@, key)]

\* lines 1502-1525
AliasedOriginal(st, aliasName, originalRefs, inferredColumnName) ==
    IF Len(originalRefs) > 0
    THEN AliasOfQualified(st, LowerSeq(originalRefs[1]), aliasName)
    ELSE IF inferredColumnName # <<>>
    THEN AddInferred(st, inferredColumnName, FALSE)
    ELSE st

\* line 1526: outputColumns.add(aliasName)
AliasIsOutput(st, aliasName) == [st EXCEPT !.outputColumns = SetAdd(@, aliasName)]

\* lines 1498-1526: a SELECT item with an AS alias
AliasedPart(st, originalExpr, aliasName, tableAliases) ==
    AliasIsOutput(
        AliasedOriginal(st, aliasName, QualifiedNames(originalExpr, tableAliases),
                        extractOriginalColumnFromExpression(originalExpr)),
        aliasName)

SelectPartAliased(st, trimmedPart, tableAliases) ==
    AliasedPart(st, AsOriginalExpr(trimmedPart), AsAliasName(trimmedPart), tableAliases)

\* lines 1531-1534
QualifiedIsOutput(st, key) ==
    [st EXCEPT
        !.selectedOriginalQualifiedColumns = SetAdd(@, key),
        !.outputColumns = SetAdd(@, key)]

\* lines 1548-1555, after outputColumns.add('*')
StarNode(st) ==
    IF ~MapHas(st.columnNodeIdMap, <<"*">>)
    THEN AddColumnNode(st, <<"*">>, <<"*">>, <<"*">>)
    ELSE st

\* lines 1529-1556
PlainPart(st, trimmedPart, originalRefs, inferredColumnName) ==
    IF Len(originalRefs) > 0
    THEN QualifiedIsOutput(st, LowerSeq(originalRefs[1]))
    ELSE IF inferredColumnName # <<>>
    THEN AddInferred(st, inferredColumnName, TRUE)
    ELSE IF trimmedPart = <<"*">>
    THEN StarNode(AliasIsOutput(st, <<"*">>))
    ELSE st

\* lines 1527-1557: a SELECT item without alias
SelectPartPlain(st, trimmedPart, tableAliases) ==
    PlainPart(st, trimmedPart, QualifiedNames(trimmedPart, tableAliases),
              extractOriginalColumnFromExpression(trimmedPart))

\* lines 1495-1557: one iteration of selectClauseParts.forEach
SelectPart(st, trimmedPart, tableAliases) ==
    IF AsMatch(trimmedPart) # 0
    THEN SelectPartAliased(st, trimmedPart, tableAliases)
    ELSE SelectPartPlain(st, trimmedPart, tableAliases)

RECURSIVE SelectParts(_, _, _, _)
\* lines 1494-1558
SelectParts(st, parts, j, tableAliases) ==
    IF j > Len(parts) THEN st
    ELSE SelectParts(SelectPart(st, Trim(parts[j]), tableAliases),
                     parts, j + 1, tableAliases)


PushEdge(st, e) == [st EXCEPT !.edges = Append(@, e)]

\* lines 1562-1568
IsAliasNode(st, outputName) ==
    \E k \in DOMAIN st.resolvedColumnAliases :
        st.resolvedColumnAliases[k] = outputName

\* lines 1570-1585: one iteration of outputColumns.forEach
OutputColumn(st, outputName) ==
    IF IsAliasNode(st, outputName) /\ ~MapHas(st.aliasNodeIdMap, outputName)
    THEN LET nodeId == NodeId("alias", st.nodeIdCounter)
         IN  [st EXCEPT
                !.nodes = Append(@, Node(nodeId, outputName, "column", TRUE, <<>>)),
                !.aliasNodeIdMap = MapSet(@, outputName, nodeId),
                !.nodeIdCounter = @ + 1,
                !.edges = Append(@, Edge(nodeId, mainQueryNodeId, "flows_to", ""))]
    ELSE IF /\ ~IsAliasNode(st, outputName)
            /\ MapHas(st.columnNodeIdMap, outputName)
            /\ ~Includes(st.selectedOriginalQualifiedColumns, outputName)
    THEN PushEdge(st, Edge(st.columnNodeIdMap[outputName], mainQueryNodeId, "flows_to", ""))
    ELSE IF outputName = <<"*">> /\ MapHas(st.columnNodeIdMap, <<"*">>)
    THEN PushEdge(st, Edge(st.columnNodeIdMap[<<"*">>], mainQueryNodeId, "flows_to", ""))
    ELSE st

RECURSIVE OutputColumns(_, _)
\* lines 1561-1586 (the Set is not changed while it is iterated)
OutputColumns(st, j) ==
    IF j > Len(st.outputColumns) THEN st
    ELSE OutputColumns(OutputColumn(st, st.outputColumns[j]), j + 1)

\* lines 1593-1597: one iteration of columns.forEach
ProvidesColumn(st, tableKey, key) ==
    IF MapHas(st.columnNodeIdMap, key)
    THEN PushEdge(st, Edge(st.nodeMap[tableKey], st.columnNodeIdMap[key], "provides", ""))
    ELSE st

RECURSIVE ProvidesColumns(_, _, _, _)
\* lines 1592-1598
ProvidesColumns(st, tableName, columns, j) ==
    IF j > Len(columns) THEN st
    ELSE ProvidesColumns(
            ProvidesColumn(st, Lower(tableName),
                           LowerSeq(<<tableName, ".", columns[j]>>)),
            tableName, columns, j + 1)

\* lines 1590-1599: one iteration over tableColumnReferences
ProvidesTable(st, tableName, columns, tableKey) ==
    IF MapHas(st.nodeMap, tableKey) THEN ProvidesColumns(st, tableName, columns, 1) ELSE st

RECURSIVE Provides(_, _, _)
\* lines 1589-1600
Provides(st, tableColumnReferences, j) ==
    IF j > Len(tableColumnReferences) THEN st
    ELSE Provides(
            ProvidesTable(st, tableColumnReferences[j][1], tableColumnReferences[j][2],
                          Lower(tableColumnReferences[j][1])),
            tableColumnReferences, j + 1)

\* lines 1604-1623: one iteration of selectedOriginalQualifiedColumns.forEach
SelectedColumn(st, qualifiedColName) ==
    IF ~MapHas(st.columnNodeIdMap, qualifiedColName) THEN st
    ELSE LET qualifiedColNodeId == st.columnNodeIdMap[qualifiedColName]
         IN  IF MapHas(st.resolvedColumnAliases, qualifiedColName)
             THEN LET aliasName == st.resolvedColumnAliases[qualifiedColName]
                  IN  IF MapHas(st.aliasNodeIdMap, aliasName)
                      THEN PushEdge(st, Edge(qualifiedColNodeId,
                                             st.aliasNodeIdMap[aliasName], "flows_to", ""))
                      ELSE st
             ELSE IF \/ Includes(st.outputColumns, qualifiedColName)
                     \/ Includes(st.outputColumns, SplitPop(qualifiedColName))
                  THEN IF \E k \in 1..Len(st.edges) :
                              /\ st.edges[k].source = qualifiedColNodeId
                              /\ st.edges[k].target = mainQueryNodeId
                              /\ st.edges[k].type = "flows_to"
                       THEN st
                       ELSE PushEdge(st, Edge(qualifiedColNodeId, mainQueryNodeId,
                                              "flows_to", ""))
                  ELSE st

RECURSIVE SelectedColumns(_, _)
\* lines 1603-1624
SelectedColumns(st, j) ==
    IF j > Len(st.selectedOriginalQualifiedColumns) THEN st
    ELSE SelectedColumns(
            SelectedColumn(st, st.selectedOriginalQualifiedColumns[j]), j + 1)

\* lines 1629-1636: one iteration of joinConditions.forEach, l and r being
\* the lower-case qualified names of the two sides
JoinEdge(st, l, r) ==
    IF MapHas(st.columnNodeIdMap, l) /\ MapHas(st.columnNodeIdMap, r)
    THEN PushEdge(
            PushEdge(st, Edge(st.columnNodeIdMap[l], st.columnNodeIdMap[r],
                              "uses", "on_join")),
            Edge(st.columnNodeIdMap[r], st.columnNodeIdMap[l], "uses", "on_join"))
    ELSE st

RECURSIVE JoinEdges(_, _, _)
\* lines 1628-1637
JoinEdges(st, joinConditions, j) ==
    IF j > Len(joinConditions) THEN st
    ELSE JoinEdges(JoinEdge(st, LowerSeq(joinConditions[j].leftColumnQualified),
                                LowerSeq(joinConditions[j].rightColumnQualified)),
                   joinConditions, j + 1)

\* WhereEdge with the key of the query node in nodeMap written for its id
WhereEdge_targetsMapKey(st, key) ==
    IF MapHas(st.columnNodeIdMap, key)
    THEN PushEdge(st, Edge(st.columnNodeIdMap[key], "main_query", "constrains", ""))
    ELSE st

\* lines 1645-1648: one iteration of constrainedQualifiedColumns.forEach
WhereEdge(st, key) ==
    IF MapHas(st.columnNodeIdMap, key)
    THEN PushEdge(st, Edge(st.columnNodeIdMap[key], mainQueryNodeId, "constrains", ""))
    ELSE st

RECURSIVE WhereEdges(_, _, _)
\* lines 1644-1649
WhereEdges(st, constrainedQualifiedColumns, j) ==
    IF j > Len(constrainedQualifiedColumns) THEN st
    ELSE WhereEdges(WhereEdge(st, LowerSeq(constrainedQualifiedColumns[j])),
                    constrainedQualifiedColumns, j + 1)

\* sqlUpper.includes('UPDATE')
IncludesUpdate(s) == \E j \in 1..Len(s) : Upper(s[j]) = "UPDATE"

\* sqlUpper.includes('INSERT INTO')
IncludesInsertInto(s) ==
    \E j \in 1..Len(s) :
        /\ j + 2 <= Len(s)
        /\ Upper(s[j]) = "INSERT" /\ s[j + 1] = SP /\ Upper(s[j + 2]) = "INTO"

\* /INSERT\s+INTO\s+([a-zA-Z_][a-zA-Z0-9_]*)/i matches with INSERT at i
InsertAt(s, i) ==
    /\ Kw(s, i, "INSERT")
    /\ i + 1 <= Len(s) /\ IsWs(s[i + 1])
    /\ KwTableAt(s, SkipWs(s, i + 1), "INTO")

FirstInsert(s, i) == First(s, i, InsertAt)

\* lines 1655-1662 and 1667-1674: the modifies edge to table `name`
ModifiesEdge(st, tableKey) ==
    IF MapHas(st.nodeMap, tableKey)
    THEN PushEdge(st, Edge(mainQueryNodeId, st.nodeMap[tableKey], "modifies", ""))
    ELSE st

\* lines 1655-1662, the match of /UPDATE\s+(ident)/i being at u (0: none)
UpdateMatch(st, s, u) ==
    IF u # 0 THEN ModifiesEdge(st, Lower(s[SkipWs(s, u + 1)])) ELSE st

\* lines 1653-1663
UpdateEdges(st, s) ==
    IF IncludesUpdate(s) THEN UpdateMatch(st, s, FirstKwTable(s, 1, "UPDATE")) ELSE st

\* lines 1667-1674, the match of /INSERT\s+INTO\s+(ident)/i being at i
InsertMatch(st, s, i) ==
    IF i # 0 THEN ModifiesEdge(st, Lower(s[SkipWs(s, SkipWs(s, i + 1) + 1)])) ELSE st

\* lines 1666-1675
InsertEdges(st, s) ==
    IF IncludesInsertInto(s) THEN InsertMatch(st, s, FirstInsert(s, 1)) ELSE st

\* lines 1640-1650
WhereClauseEdges(st, whereClause, tableAliases) ==
    IF whereClause # <<>>
    THEN WhereEdges(st, QualifiedNames(whereClause, tableAliases), 1)
    ELSE st

\* Graph with the query node moved behind the other nodes
Graph_queryNodeLast(st) ==
    [nodes |-> Tail(st.nodes) \o <<Head(st.nodes)>>, edges |-> st.edges,
     isNull |-> FALSE]

\* line 1677: return { nodes, edges }
Graph(st) == [nodes |-> st.nodes, edges |-> st.edges, isNull |-> FALSE]

\* lines 1456-1677, tableAliases being the result of extractTableAliases
\* (line 1454) and refs the matches of extractTableColumnReferences on the
\* whole statement (line 1466)
GraphFrom(sqlQuery, parserTables, tableAliases, refs) ==
    LET st1 == AddTables(GvdStart, parserTables, 1)
        st2 == AddQualifiedColumns(st1, CollectNames(<<>>, refs, 1), 1)
        st3 == SelectParts(st2, splitSelectClause(SelectClause(sqlQuery)), 1,
                           tableAliases)
        st4 == OutputColumns(st3, 1)
        st5 == Provides(st4, CollectMap(<<>>, refs, 1), 1)
        st6 == SelectedColumns(st5, 1)
        st7 == JoinEdges(st6, extractJoinConditions(sqlQuery, tableAliases), 1)
        st8 == WhereClauseEdges(st7, WhereClause(sqlQuery), tableAliases)
        st9 == UpdateEdges(st8, sqlQuery)
        st10 == InsertEdges(st9, sqlQuery)
    IN  Graph(st10)

WithAliases(sqlQuery, parserTables, tableAliases) ==
    GraphFrom(sqlQuery, parserTables, tableAliases, QualRefs(sqlQuery, 1, tableAliases))

\* generateVisualizationData(sqlQuery, parserResult), parserResult.tables
\* being the only field of the parser's result that it reads
generateVisualizationData(sqlQuery, parserTables) ==
    WithAliases(sqlQuery, parserTables, extractTableAliases(sqlQuery))

-----------------------------------------------------------------------------
(* The texts a user types: SELECT statements assembled from projection     *)
(* items, a FROM reference, JOIN clauses and a tail, and a few UPDATE and  *)
(* INSERT statements.                                                      *)

MaxItems == 2
MaxJoins == 2
MaxCalls == 2

Q(a, c) == <<a, ".", c>>
As(expr, as, alias) == expr \o <<SP, as, SP, alias>>
Eq(l, r) == l \o <<SP, "=", SP>> \o r

SelectItems ==
    { Q("u", "id"), Q("users", "id"), Q("o", "y"), <<"id">>, <<"*">>,
      As(Q("u", "id"), "AS", "uid"),
      As(Q("u", "id"), "as", "n"),
      As(Q("u", "x"), "AS", "id"),
      As(<<"COUNT", "(">> \o Q("o", "id") \o <<")">>, "AS", "count"),
      As(Q("u", "x") \o <<SP, "+", SP>> \o Q("o", "y"), "AS", "k") }

FromRefs ==
    { <<"users", SP, "u">>, <<"users", SP, "AS", SP, "u">>, <<"users">>,
      <<"orders", SP, "u">> }

\* a joined table with an alias without AS, with AS, and without alias
JoinBareAlias ==
    <<"JOIN", SP, "orders", SP, "o", SP, "ON", SP>> \o Eq(Q("u", "x"), Q("o", "y"))

JoinWithAs ==
    <<"JOIN", SP, "orders", SP, "AS", SP, "o", SP, "ON", SP>>
        \o Eq(Q("u", "x"), Q("o", "y"))

JoinTwoConditions ==
    <<"LEFT", SP, "JOIN", SP, "items", SP, "AS", SP, "i", NL, "ON", SP>>
        \o Eq(Q("u", "id"), Q("i", "id")) \o <<SP, "AND", SP>>
        \o Eq(Q("i", "x"), Q("u", "x"))

JoinNoAlias ==
    <<"JOIN", SP, "Users", SP, "ON", SP>> \o Eq(Q("users", "x"), Q("Users", "y"))

JoinClauses == { JoinBareAlias, JoinWithAs, JoinTwoConditions, JoinNoAlias }

Tails ==
    { <<>>, <<";">>,
      <<SP, "WHERE", SP>> \o Eq(Q("u", "id"), <<"1">>),
      <<NL, "GROUP", SP, "BY", SP>> \o Q("u", "id") \o <<";">> }

Lists(S, n) == UNION { [1..k -> S] : k \in 1..n }

RECURSIVE JoinWith(_, _, _)
\* the elements of list from the j-th on, each preceded by sep
JoinWith(list, sep, j) ==
    IF j > Len(list) THEN <<>> ELSE sep \o list[j] \o JoinWith(list, sep, j + 1)

SelectText(items, from, joins, tail) ==
    <<"SELECT", SP>> \o items[1] \o JoinWith(items, <<",", SP>>, 2)
        \o <<SP, "FROM", SP>> \o from \o JoinWith(joins, <<SP>>, 1) \o tail

\* every projection list over every FROM reference, with at most one JOIN
ProjectionTexts ==
    { SelectText(items, from, joins, tail) :
        items \in Lists(SelectItems, MaxItems), from \in FromRefs,
        joins \in { <<>>, <<JoinBareAlias>> },
        tail \in { <<>>, <<SP, "WHERE", SP>> \o Eq(Q("u", "id"), <<"1">>) } }

\* every list of JOIN clauses under every tail
JoinTexts ==
    { SelectText(<<item>>, from, joins, tail) :
        item \in { Q("u", "id"), As(Q("o", "y"), "AS", "k") },
        from \in { <<"users", SP, "u">>, <<"users">> },
        joins \in Lists(JoinClauses, MaxJoins), tail \in Tails }

DmlTexts ==
    { <<"UPDATE", SP, "users", SP, "SET", SP, "x", SP, "=", SP, "1", SP,
        "WHERE", SP>> \o Eq(Q("users", "id"), <<"1">>),
      <<"UPDATE", NL, "orders", SP, "SET", SP, "x", SP, "=", SP, "1">>,
      <<"INSERT", SP, "INTO", SP, "orders", SP, "SELECT", SP>> \o Q("u", "id")
          \o <<SP, "FROM", SP, "users", SP, "u">>,
      <<"INSERT", SP, "INTO", SP, "items", SP, "(", "x", ")", SP, "SELECT", SP,
        "x", SP, "FROM", SP, "items">> }

\* texts without FROM clause: a JOIN fragment, an INSERT fragment, a bare
\* SELECT
PartialTexts ==
    { <<"SELECT", SP>> \o Q("u", "id") \o <<SP>> \o JoinBareAlias,
      <<"INSERT", SP, "INTO", SP, "items", SP, "(", "x", ")">>,
      <<"SELECT", SP, "1">> }

WhereTail == <<SP, "WHERE", SP>> \o Eq(Q("u", "id"), <<"1">>)

\* GROUP BY with HAVING, after a WHERE clause or without one
HavingTexts ==
    { SelectText(<<Q("u", "id")>>, <<"users", SP, "u">>, <<>>,
                 where \o <<NL, "GROUP", SP, "BY", SP>> \o Q("u", "id")
                    \o <<SP, "HAVING", SP>> \o Eq(Q("u", "x"), <<"1">>)) :
        where \in { <<>>, WhereTail } }

\* the table users joined with itself under the aliases u and o
JoinSelfBare ==
    <<"JOIN", SP, "users", SP, "o", SP, "ON", SP>> \o Eq(Q("u", "x"), Q("o", "y"))

JoinSelfAs ==
    <<"JOIN", SP, "users", SP, "AS", SP, "o", SP, "ON", SP>>
        \o Eq(Q("u", "x"), Q("o", "y"))

SelfJoinTexts ==
    { SelectText(items, <<"users", SP, "u">>, <<join>>, tail) :
        items \in { <<Q("u", "id")>>, <<Q("u", "id"), Q("o", "y")>>, <<Q("o", "id")>> },
        join \in { JoinSelfBare, JoinSelfAs },
        tail \in { <<>>, WhereTail } }

\* statements that say the same thing twice: a join equality repeated, a
\* column compared with itself, a column spelled in two letter cases, and
\* UPDATE and INSERT INTO on one table
RepeatTexts ==
    { SelectText(<<Q("u", "id")>>, <<"users", SP, "u">>,
                 <<JoinWithAs \o <<SP, "AND", SP>> \o Eq(Q("u", "x"), Q("o", "y"))>>,
                 WhereTail),
      SelectText(<<Q("u", "id")>>, <<"users", SP, "u">>,
                 <<<<"JOIN", SP, "orders", SP, "AS", SP, "o", SP, "ON", SP>>
                    \o Eq(Q("u", "x"), Q("u", "x"))>>,
                 WhereTail),
      SelectText(<<Q("u", "id")>>, <<"users", SP, "u">>, <<>>,
                 WhereTail \o <<SP, "AND", SP>> \o Eq(Q("U", "ID"), <<"1">>)),
      <<"UPDATE", SP, "users", SP, "SET", SP, "x", SP, "=", SP, "1", ";", SP,
        "INSERT", SP, "INTO", SP, "users", SP, "SELECT", SP>> \o Q("u", "id")
          \o <<SP, "FROM", SP, "users", SP, "u">> }

\* a function call in the SELECT list that holds a FROM or a comma
ExtractCall == <<"EXTRACT", "(", "YEAR", SP, "FROM", SP>> \o Q("o", "d") \o <<")">>

CoalesceCall == <<"COALESCE", "(">> \o Q("u", "x") \o <<",", SP>> \o Q("o", "y") \o <<")">>

NestedTexts ==
    { SelectText(items, <<"orders", SP, "o">>, <<>>, tail) :
        items \in { <<ExtractCall>>, <<Q("o", "id"), As(ExtractCall, "AS", "k")>>,
                    <<CoalesceCall>>, <<As(CoalesceCall, "AS", "k"), Q("o", "id")>> },
        tail \in { <<>>, <<SP, "WHERE", SP>> \o Eq(Q("o", "id"), <<"1">>) } }

\* a `--` comment up to and including the end of its line
Comment(words) == <<"-", "-", SP>> \o words \o <<NL>>

CommentBodies ==
    { <<"n">>, Q("o", "y"), <<"FROM", SP, "items", SP, "i">>,
      <<"JOIN", SP, "orders", SP, "o", SP, "ON", SP>> \o Eq(Q("u", "x"), Q("o", "y")),
      <<"WHERE", SP>> \o Eq(Q("u", "x"), <<"1">>) }

\* statements with one comment before the SELECT, after the SELECT list or
\* after the FROM clause
CommentTexts ==
    UNION { { Comment(c) \o <<"SELECT", SP>> \o Q("u", "id") \o <<NL, "FROM", SP, "users", SP, "u">>,
              <<"SELECT", SP>> \o Q("u", "id") \o <<SP>> \o Comment(c) \o <<"FROM", SP, "users", SP, "u">>,
              <<"SELECT", SP>> \o Q("u", "id") \o <<NL, "FROM", SP, "users", SP, "u", SP>>
                  \o Comment(c) \o <<"WHERE", SP>> \o Eq(Q("u", "id"), <<"1">>) } :
            c \in CommentBodies }

\* the separators between the tokens of a statement
Separators == { <<SP>>, <<NL>>, <<SP, SP>>, <<NL, SP>> }

\* a joined query whose clauses and conditions are separated by sep (between
\* clauses) and by brk (inside the ON and WHERE conditions)
SpacedText(sep, brk) ==
    <<"SELECT">> \o sep \o Q("u", "id") \o sep \o <<"FROM">> \o sep \o <<"users">>
        \o sep \o <<"u">> \o sep \o <<"JOIN">> \o sep \o <<"orders">> \o sep
        \o <<"AS">> \o sep \o <<"o">> \o sep \o <<"ON">> \o sep \o Q("u", "x") \o brk
        \o <<"=">> \o brk \o Q("o", "y") \o brk \o <<"AND">> \o sep \o Q("u", "id")
        \o <<SP, "=", SP>> \o Q("o", "uid") \o sep \o <<"WHERE">> \o sep
        \o Q("u", "x") \o brk \o <<"=">> \o brk \o <<"1">>

SpacedTexts == { SpacedText(sep, brk) : sep \in Separators, brk \in Separators }

\* FROM and JOIN targets written with a schema
SchemaFromRefs ==
    { Q("sales", "users"), Q("sales", "users") \o <<SP, "u">>,
      Q("sales", "users") \o <<SP, "AS", SP, "u">>, <<"users", SP, "u">> }

SchemaJoins ==
    { <<>>,
      <<<<"JOIN", SP>> \o Q("sales", "orders") \o <<SP, "o", SP, "ON", SP>>
            \o Eq(Q("u", "x"), Q("o", "y"))>>,
      <<<<"JOIN", SP>> \o Q("sales", "orders") \o <<SP, "AS", SP, "o", SP, "ON", SP>>
            \o Eq(Q("u", "x"), Q("o", "y"))>> }

SchemaTexts ==
    { SelectText(items, from, joins, tail) :
        items \in { <<Q("u", "id")>>, <<<<"id">>>>, <<Q("users", "id"), Q("u", "x")>> },
        from \in SchemaFromRefs, joins \in SchemaJoins,
        tail \in { <<>>, <<SP, "WHERE", SP>> \o Eq(Q("u", "id"), <<"1">>) } }

Inputs ==
    ProjectionTexts \cup JoinTexts \cup DmlTexts \cup PartialTexts \cup HavingTexts
        \cup SelfJoinTexts \cup RepeatTexts \cup NestedTexts \cup CommentTexts
        \cup SpacedTexts \cup SchemaTexts

\* what the instance is used for before the text under study: blank texts
\* and statements with white space around them
SessionTexts ==
    { <<SP, NL>>,
      <<SP, "SELECT", SP>> \o Q("i", "x") \o <<SP, "FROM", SP, "items", SP, "i", NL>>,
      <<NL>> \o SelectText(<<Q("u", "id")>>, <<"users", SP, "u">>,
                           <<JoinWithAs>>, <<";">>) }

-----------------------------------------------------------------------------
(* The page of part_002: one SQLLineageVisualizer with its                 *)
(* SQLLineageParser, constructed on DOMContentLoaded.                      *)

Init ==
    /\ sqlInput = <<>>
    /\ tables = <<>>
    /\ currentData = Null
    /\ loading = FALSE
    /\ errorMsg = ""
    /\ query = <<>>
    /\ calls = 0
    /\ requests = <<>>
    /\ views = [graph |-> Null, details |-> Null, json |-> Null]

\* the user replaces the content of the textarea by a session text
TypeSessionText ==
    /\ calls < MaxCalls
    /\ \E text \in SessionTexts : sqlInput' = text
    /\ UNCHANGED <<tables, currentData, loading, errorMsg, query, calls, requests, views>>

\* the user types the text under study, once, before the last parse of the
\* session
TypeInput ==
    /\ calls = MaxCalls - 1
    /\ sqlInput \notin Inputs
    /\ \E text \in Inputs : sqlInput' = text
    /\ UNCHANGED <<tables, currentData, loading, errorMsg, query, calls, requests, views>>

\* parseSQLAndVisualize (1397-1429) on a blank textarea
ParseBlank ==
    /\ Trim(sqlInput) = <<>>
    /\ errorMsg' = "Please enter a SQL query"
    /\ UNCHANGED <<sqlInput, tables, currentData, loading, query, calls, requests, views>>

\* parseSQLAndVisualize (1397-1429) on a text: it holds no await, so that
\* showLoading(true) and showLoading(false) are in the same step
ParseSQLAndVisualize ==
    /\ calls < MaxCalls
    /\ Trim(sqlInput) # <<>>
    /\ LET trimmed == Trim(sqlInput)
           parsedTables == parseSQL(tables, trimmed)
       IN  /\ tables' = parsedTables
           /\ currentData' = generateVisualizationData(trimmed, parsedTables)
           /\ query' = trimmed
    /\ loading' = FALSE
    /\ calls' = calls + 1
    /\ UNCHANGED <<sqlInput, errorMsg, requests, views>>

\* clearAll (2180-2211)
ClearAll ==
    /\ sqlInput' = <<>>
    /\ currentData' = Null
    /\ UNCHANGED <<tables, loading, errorMsg, query, calls, requests, views>>

Next == TypeSessionText \/ TypeInput \/ ParseBlank \/ ParseSQLAndVisualize \/ ClearAll

Spec == Init /\ [][Next]_vars

-----------------------------------------------------------------------------
(* The page of src/backend/static/script.js: the SQLLineageVisualizer that *)
(* posts the text to /api/parse.  JavaScript values are strings here:      *)
(* Absent is undefined (a property the object does not have) and JsNull is *)
(* null.                                                                   *)

Absent == "<undefined>"
JsNull == "<null>"

\* the value is truthy
Truthy(v) == v # Absent /\ v # JsNull /\ v # ""

\* a || b
Or(a, b) == IF Truthy(a) THEN a ELSE b

\* { key: value, ...obj }: an own property of obj replaces the value
Spread(value, own) == IF own # Absent THEN own ELSE value

\* an element of data.nodes, data.tables, data.columns or data.queries
Obj(id, name, type) ==
    [id |-> id, name |-> name, type |-> type, schema |-> Absent, table |-> Absent,
     table_name |-> Absent, column_name |-> Absent, query_name |-> Absent]

\* an element of data.edges or data.relationships
EdgeObj(source, target, type) ==
    [source |-> source, target |-> target, type |-> type, from |-> Absent,
     to |-> Absent, sourceId |-> Absent, targetId |-> Absent,
     relationship |-> Absent]

FromTo(from, to, relationship) ==
    [source |-> Absent, target |-> Absent, type |-> Absent, from |-> from,
     to |-> to, sourceId |-> Absent, targetId |-> Absent,
     relationship |-> relationship]

\* a node and an edge of the normalized graph
NormalNode(id, name, type, schema, table) ==
    [id |-> id, name |-> name, type |-> type, schema |-> schema, table |-> table]

NormalEdge(source, target, type) == [source |-> source, target |-> target, type |-> type]

\* lines 105-111: one element of data.nodes.map, random being Math.random()
NodeOfNodes(node, random) ==
    NormalNode(Spread(Or(node.id, Or(node.name, "node_" \o random)), node.id),
               Spread(Or(node.name, Or(node.id, "Unnamed")), node.name),
               Spread(Or(node.type, "unknown"), node.type),
               Spread(Or(node.schema, JsNull), node.schema),
               node.table)

\* lines 104-112
NodesOfNodes(nodes, randoms) ==
    [j \in 1..Len(nodes) |-> NodeOfNodes(nodes[j], randoms[j])]

\* the id of an element of a separate array: obj.id || `${prefix}_${nodeId++}`
IdOr(obj, prefix, nodeId) == Or(obj.id, NodeId(prefix, nodeId))

\* nodeId after that element
NodeIdAfter(obj, nodeId) == IF Truthy(obj.id) THEN nodeId ELSE nodeId + 1

\* lines 118-123, 129-135, 141-146: the node pushed for one element
NodeOfArray(obj, type, nodeId) ==
    IF type = "table"
    THEN NormalNode(IdOr(obj, "table", nodeId),
                    Or(obj.name, Or(obj.table_name, "Unknown Table")),
                    "table", Or(obj.schema, JsNull), Absent)
    ELSE IF type = "column"
    THEN NormalNode(IdOr(obj, "column", nodeId),
                    Or(obj.name, Or(obj.column_name, "Unknown Column")),
                    "column", Or(obj.schema, JsNull), Or(obj.table, JsNull))
    ELSE NormalNode(IdOr(obj, "query", nodeId),
                    Or(obj.name, Or(obj.query_name, "Query")),
                    "query", Or(obj.schema, JsNull), Absent)

RECURSIVE PushArray(_, _, _, _)
\* the forEach over one of the separate arrays from its j-th element on;
\* acc holds the nodes and the counter nodeId
PushArray(acc, objs, type, j) ==
    IF j > Len(objs) THEN acc
    ELSE PushArray([nodes |-> Append(acc.nodes, NodeOfArray(objs[j], type, acc.nodeId)),
                    nodeId |-> NodeIdAfter(objs[j], acc.nodeId)],
                   objs, type, j + 1)

\* lines 112-149: data.tables, data.columns and data.queries, the arrays the
\* data does not have being empty
NodesOfArrays(data) ==
    PushArray(PushArray(PushArray([nodes |-> <<>>, nodeId |-> 0],
                                  data.tables, "table", 1),
                        data.columns, "column", 1),
              data.queries, "query", 1).nodes

\* lines 104-149
NormalizedNodes(data, randoms) ==
    IF "nodes" \in data.has THEN NodesOfNodes(data.nodes, randoms)
    ELSE IF data.has \cap { "tables", "columns", "queries" } # {}
    THEN NodesOfArrays(data)
    ELSE <<>>

\* lines 153-158: one element of data.edges.map
EdgeOfEdges(edge) ==
    NormalEdge(Spread(Or(edge.source, Or(edge.from, edge.sourceId)), edge.source),
               Spread(Or(edge.target, Or(edge.to, edge.targetId)), edge.target),
               Spread(Or(edge.type, Or(edge.relationship, "uses")), edge.type))

\* lines 160-164: one element of data.relationships.map
EdgeOfRelationships(rel) ==
    NormalEdge(Or(rel.source, Or(rel.from, rel.sourceId)),
               Or(rel.target, Or(rel.to, rel.targetId)),
               Or(rel.type, Or(rel.relationship, "uses")))

\* lines 152-166
NormalizedEdges(data) ==
    IF "edges" \in data.has
    THEN [j \in 1..Len(data.edges) |-> EdgeOfEdges(data.edges[j])]
    ELSE IF "relationships" \in data.has
    THEN [j \in 1..Len(data.relationships) |-> EdgeOfRelationships(data.relationships[j])]
    ELSE <<>>

RECURSIVE Join(_, _)
\* the string whose tokens from the j-th on are those of s
Join(s, j) == IF j > Len(s) THEN "" ELSE s[j] \o Join(s, j + 1)

\* (?:FROM|JOIN)\s+([a-zA-Z_]...) matches with the keyword at i
FromOrJoinAt(s, i) == KwTableAt(s, i, "FROM") \/ KwTableAt(s, i, "JOIN")

\* match.replace(/(?:FROM|JOIN)\s+/i, '').trim() for the match whose table
\* reference starts at t
TableText(s, t) == Join(SubSeq(s, t, TableRefEnd(s, t)), 1)

RECURSIVE TableMatches(_, _)
\* sql.match(tableRegex) from position i on: the successive matches
TableMatches(s, i) ==
    LET j == First(s, i, FromOrJoinAt)
    IN  IF j = 0 THEN <<>>
        ELSE <<TableText(s, SkipWs(s, j + 1))>>
             \o TableMatches(s, TableRefEnd(s, SkipWs(s, j + 1)) + 1)

\* [...new Set(tables)]
extractTablesFromSQL(sql) == PushAllNew(<<>>, TableMatches(sql, 1), 1)

IsComma(s, k) == s[k] = ","

RECURSIVE Split(_, _)
\* selectClause.split(',') from position i on
Split(s, i) ==
    LET c == First(s, i, IsComma)
    IN  IF c = 0 THEN <<SubSeq(s, i, Len(s))>>
        ELSE <<SubSeq(s, i, c - 1)>> \o Split(s, c + 1)

\* /.*\s+AS\s+/i matches from position p with its AS at a: no line break
\* between p and the white space before AS
AsPrefixAt(col, p, a) ==
    /\ a > p /\ Kw(col, a, "AS")
    /\ IsWs(col[a - 1])
    /\ a + 1 <= Len(col) /\ IsWs(col[a + 1])
    /\ ~Includes(SubSeq(col, p, SkipWsBack(col, a - 1)), NL)

AsPrefixFrom(col, p) == \E a \in 1..Len(col) : AsPrefixAt(col, p, a)

\* the AS of the match from p: .* is greedy
LastAs(col, p) ==
    CHOOSE a \in 1..Len(col) :
        AsPrefixAt(col, p, a) /\ \A b \in (a + 1)..Len(col) : ~AsPrefixAt(col, p, b)

\* col with the match from p cut out (p = 0: no match)
CutAsPrefix(col, p) ==
    IF p = 0 THEN col
    ELSE SubSeq(col, 1, p - 1) \o SubSeq(col, SkipWs(col, LastAs(col, p) + 1), Len(col))

\* col.replace(/.*\s+AS\s+/i, '')
WithoutAsPrefix(col) == CutAsPrefix(col, First(col, 1, AsPrefixFrom))

\* a "." follows position k on the line of k
DotAhead(col, k) ==
    \E d \in k..Len(col) : col[d] = "." /\ ~Includes(SubSeq(col, k, d), NL)

\* the token is made of characters of [a-zA-Z0-9_]
IsWordToken(t) == IsIdent(t) \/ t = "1"

\* replace(/.*\./g, '') and replace(/[^a-zA-Z0-9_]/g, '') keep position k
KeptAt(col, k) == IsWordToken(col[k]) /\ ~DotAhead(col, k)

RECURSIVE KeptFrom(_, _)
KeptFrom(col, k) ==
    IF k > Len(col) THEN ""
    ELSE IF KeptAt(col, k) THEN col[k] \o KeptFrom(col, k + 1)
    ELSE KeptFrom(col, k + 1)

\* substring(0, 20)
Substring20(str) == IF Len(str) > 20 THEN SubSeq(str, 1, 20) ELSE str

\* lines 231-233: the name made of one part of the SELECT clause
BasicColumnName(col) == Substring20(KeptFrom(WithoutAsPrefix(Trim(col)), 1))

RECURSIVE BasicColumnNames(_, _)
\* lines 230-234: map and filter(col => col && col !== '*')
BasicColumnNames(parts, j) ==
    IF j > Len(parts) THEN <<>>
    ELSE IF BasicColumnName(parts[j]) \in { "", "*" }
    THEN BasicColumnNames(parts, j + 1)
    ELSE <<BasicColumnName(parts[j])>> \o BasicColumnNames(parts, j + 1)

\* lines 224-237, selectClause being match[1] ('' if there is no match)
ColumnsOfClause(selectClause) ==
    IF selectClause = <<>> THEN <<>>
    ELSE PushAllNew(<<>>, BasicColumnNames(Split(selectClause, 1), 1), 1)

extractColumnsFromSQL(sql) == ColumnsOfClause(SelectClause(sql))

\* lines 181-195: the nodes pushed for the tables and the columns
SampleTableNodes(tbls) ==
    [j \in 1..Len(tbls) |-> NormalNode(NodeId("table", j - 1), tbls[j], "table", Absent, Absent)]

SampleColumnNodes(columns) ==
    [j \in 1..Len(columns) |->
        NormalNode(NodeId("column", j - 1), columns[j], "column", Absent, Absent)]

\* lines 198-204
SampleQueryNode(tbls) ==
    IF Len(tbls) > 0
    THEN <<NormalNode("main_query", "Main Query", "query", Absent, Absent)>>
    ELSE <<>>

\* lines 205-211
SampleEdges(tbls) ==
    [j \in 1..Len(tbls) |-> NormalEdge(NodeId("table", j - 1), "main_query", "feeds")]

\* createSampleDataFromSQL (175-213) on a graph without nodes, tbls and
\* columns being extracted from the content of the textarea
SampleData(edges, tbls, columns) ==
    [nodes |-> SampleTableNodes(tbls) \o SampleColumnNodes(columns) \o SampleQueryNode(tbls),
     edges |-> edges \o SampleEdges(tbls),
     isNull |-> FALSE]

createSampleDataFromSQL(edges, textarea) ==
    SampleData(edges, extractTablesFromSQL(textarea), extractColumnsFromSQL(textarea))

\* lines 168-172, nodes and edges being those of lines 104-166
Normalized(nodes, edges, textarea) ==
    IF Len(nodes) = 0
    THEN createSampleDataFromSQL(edges, textarea)
    ELSE [nodes |-> nodes, edges |-> edges, isNull |-> FALSE]

\* validateAndNormalizeData (96-173) on a response body that is an object
validateAndNormalizeData(data, randoms, textarea) ==
    Normalized(NormalizedNodes(data, randoms), NormalizedEdges(data), textarea)

\* the body of a response: an object (has: the arrays it holds), null, or
\* a text that is no JSON
Body(kind, has, nodes, edges, detail) ==
    [kind |-> kind, has |-> has, nodes |-> nodes, edges |-> edges,
     tables |-> <<>>, columns |-> <<>>, queries |-> <<>>, relationships |-> <<>>,
     detail |-> detail]

ArraysBody(tbls, columns, queries, relationships) ==
    [kind |-> "object", has |-> { "tables", "columns", "queries", "relationships" },
     nodes |-> <<>>, edges |-> <<>>,
     tables |-> tbls, columns |-> columns, queries |-> queries,
     relationships |-> relationships, detail |-> Absent]

NoBody == Body("none", {}, <<>>, <<>>, Absent)
NullBody == Body("null", {}, <<>>, <<>>, Absent)
NoJson == Body("unparsable", {}, <<>>, <<>>, Absent)

\* the bodies of the 2xx responses
OkBodies ==
    { Body("object", { "nodes", "edges" },
           <<Obj("a", "A", "table"), Obj("q", "Q", "query")>>,
           <<EdgeObj("a", "q", "feeds")>>, Absent),
      Body("object", { "nodes", "edges" },
           <<Obj("a", "A", "table"), Obj("q", "Q", "query")>>,
           <<EdgeObj("a", "q", "feeds"), EdgeObj("a", "zzz", "uses")>>, Absent),
      Body("object", { "nodes", "edges" },
           <<Obj(Absent, "users", "table"), Obj(Absent, Absent, Absent)>>,
           <<FromTo("users", "q", "reads"), EdgeObj(Absent, Absent, Absent)>>, Absent),
      Body("object", { "nodes" }, <<Obj("", "N", JsNull)>>, <<>>, Absent),
      Body("object", { "nodes", "edges" }, <<>>, <<EdgeObj("table_0", "main_query", "")>>,
           Absent),
      Body("object", { "edges" }, <<>>, <<EdgeObj("x", "table_0", Absent)>>, Absent),
      Body("object", {}, <<>>, <<>>, Absent),
      ArraysBody(<<[Obj(Absent, Absent, Absent) EXCEPT !.table_name = "users"]>>,
                 <<[Obj("c1", "id", Absent) EXCEPT !.table = "users"]>>,
                 <<Obj(Absent, Absent, Absent)>>,
                 <<FromTo("table_0", "query_1", "reads"), FromTo("c1", "table_1", Absent)>>),
      NullBody, NoJson }

\* the bodies of the other responses
ErrorBodies ==
    { Body("object", {}, <<>>, <<>>, "Invalid SQL"),
      Body("object", {}, <<>>, <<>>, Absent),
      NoJson }

\* the values of Math.random() in `node_${Math.random()}`
Randoms == { "0.25", "0.75" }

\* the texts typed into the textarea of this page
RemoteTexts ==
    { <<SP>>,
      <<SP>> \o SelectText(<<Q("u", "id"),
                             As(<<"COUNT", "(">> \o Q("o", "id") \o <<")">>, "AS", "count")>>,
                           <<"users", SP, "u">>, <<JoinBareAlias>>, <<>>),
      SelectText(<<<<"*">>>>, <<"users">>, <<>>, <<>>),
      <<"UPDATE", SP, "orders", SP, "SET", SP, "x", SP, "=", SP, "1">> }

\* the parseSQL invocations of one session
MaxRequests == 2

\* a parseSQL invocation: the text it submitted, where it stands ("fetch":
\* awaiting fetch, "json": awaiting response.json(), "done"), and the
\* response once fetch has resolved
Request(sql, stage, ok, body, failed) ==
    [sql |-> sql, stage |-> stage, ok |-> ok, body |-> body, failed |-> failed]

Done(req, failed) == Request(req.sql, "done", req.ok, NoBody, failed)

\* lines 284-288 of visualizeData: the edges d3 is given
validEdges(data) ==
    LET Valid(edge) ==
            /\ \E n \in 1..Len(data.nodes) : data.nodes[n].id = edge.source
            /\ \E n \in 1..Len(data.nodes) : data.nodes[n].id = edge.target
    IN  SelectSeq(data.edges, Valid)

\* visualizeData (239-365): what the graph pane shows afterwards; without
\* nodes it shows the "No data to visualize" message
Drawn(data) ==
    IF Len(data.nodes) = 0 THEN [nodes |-> <<>>, edges |-> <<>>, isNull |-> FALSE]
    ELSE [nodes |-> data.nodes, edges |-> validEdges(data), isNull |-> FALSE]

\* d.type.toUpperCase() of the tooltips (line 336) throws for a null type
RenderThrows(data) == \E n \in 1..Len(data.nodes) : data.nodes[n].type = JsNull

\* the error thrown between `await response.json()` and validateAndNormalizeData
\* (lines 66-74), "" if none
Thrown(req) ==
    IF req.body.kind = "unparsable" THEN "Unexpected token < in JSON at position 0"
    ELSE IF ~req.ok /\ req.body.kind = "null"
    THEN "Cannot read properties of null (reading 'detail')"
    ELSE IF ~req.ok THEN Or(req.body.detail, "Failed to parse SQL")
    ELSE IF req.body.kind = "null"
    THEN "Cannot read properties of null (reading 'nodes')"
    ELSE ""

\* updateDetails (445-509): without nodes the pane shows no relationship
Details(data) ==
    IF Len(data.nodes) = 0 THEN [nodes |-> <<>>, edges |-> <<>>, isNull |-> FALSE]
    ELSE data

\* lines 76-80: the three panes after visualizeData, updateDetails and
\* updateJSON
Shows(data) == [graph |-> Drawn(data), details |-> Details(data), json |-> data]

Placeholders == [graph |-> Null, details |-> Null, json |-> Null]

\* the user replaces the content of the textarea
RemoteTypeText ==
    /\ \E text \in RemoteTexts : sqlInput' = text /\ text # sqlInput
    /\ UNCHANGED <<tables, currentData, loading, errorMsg, query, calls, requests, views>>

\* parseSQL (48-54) on a blank textarea
RemoteParseBlank ==
    /\ Trim(sqlInput) = <<>>
    /\ errorMsg' = "Please enter a SQL query"
    /\ UNCHANGED <<sqlInput, tables, currentData, loading, query, calls, requests, views>>

\* parseSQL (48-65) up to `await fetch(...)`
RemoteParseSubmit ==
    /\ Len(requests) < MaxRequests
    /\ Trim(sqlInput) # <<>>
    /\ loading' = TRUE
    /\ requests' = Append(requests, Request(Trim(sqlInput), "fetch", FALSE, NoBody, FALSE))
    /\ UNCHANGED <<sqlInput, tables, currentData, errorMsg, query, calls, views>>

\* fetch rejects: catch and finally (88-93)
FetchRejects(i) ==
    /\ requests[i].stage = "fetch"
    /\ errorMsg' = "Failed to fetch"
    /\ loading' = FALSE
    /\ requests' = [requests EXCEPT ![i] = Done(@, TRUE)]
    /\ UNCHANGED <<sqlInput, tables, currentData, query, calls, views>>

\* fetch resolves with a response: parseSQL goes on to `await response.json()`
\* (lines 67-72)
FetchResolves(i) ==
    /\ requests[i].stage = "fetch"
    /\ \E ok \in BOOLEAN :
       \E body \in IF ok THEN OkBodies ELSE ErrorBodies :
            requests' = [requests EXCEPT ![i] = Request(@.sql, "json", ok, body, FALSE)]
    /\ UNCHANGED <<sqlInput, tables, currentData, loading, errorMsg, query, calls, views>>

Settle_keepsLoading(i, thrown, data) ==
    /\ IF thrown # ""
       THEN /\ errorMsg' = thrown
            /\ requests' = [requests EXCEPT ![i] = Done(@, TRUE)]
            /\ UNCHANGED <<currentData, views, loading>>
       ELSE /\ currentData' = data
            /\ IF RenderThrows(data)
               THEN /\ views' = [views EXCEPT !.graph = Drawn(data)]
                    /\ errorMsg' = "Cannot read properties of null (reading 'toUpperCase')"
                    /\ requests' = [requests EXCEPT ![i] = Done(@, TRUE)]
               ELSE /\ views' = Shows(data)
                    /\ requests' = [requests EXCEPT ![i] = Done(@, FALSE)]
                    /\ UNCHANGED errorMsg
            /\ loading' = FALSE
    /\ UNCHANGED <<sqlInput, tables, query, calls>>

\* lines 67-93 from the second await on: thrown is the message of the error
\* thrown before validateAndNormalizeData ("" if none) and data the graph
\* validateAndNormalizeData returns
Settle(i, thrown, data) ==
    /\ IF thrown # ""
       THEN /\ errorMsg' = thrown
            /\ requests' = [requests EXCEPT ![i] = Done(@, TRUE)]
            /\ UNCHANGED <<currentData, views>>
       ELSE /\ currentData' = data
            /\ IF RenderThrows(data)
               THEN /\ views' = [views EXCEPT !.graph = Drawn(data)]
                    /\ errorMsg' = "Cannot read properties of null (reading 'toUpperCase')"
                    /\ requests' = [requests EXCEPT ![i] = Done(@, TRUE)]
               ELSE /\ views' = Shows(data)
                    /\ requests' = [requests EXCEPT ![i] = Done(@, FALSE)]
                    /\ UNCHANGED errorMsg
    /\ loading' = FALSE
    /\ UNCHANGED <<sqlInput, tables, query, calls>>

\* response.json() settles and parseSQL runs to its end
ResponseBodyRead(i) ==
    /\ requests[i].stage = "json"
    /\ \E randoms \in [1..Len(requests[i].body.nodes) -> Randoms] :
            Settle(i, Thrown(requests[i]),
                   validateAndNormalizeData(requests[i].body, randoms, sqlInput))

\* clearAll (544-576)
RemoteClearAll ==
    /\ sqlInput' = <<>>
    /\ views' = Placeholders
    /\ currentData' = Null
    /\ UNCHANGED <<tables, loading, errorMsg, query, calls, requests>>

RemoteNext ==
    \/ RemoteTypeText
    \/ RemoteParseBlank
    \/ RemoteParseSubmit
    \/ \E i \in 1..Len(requests) : FetchRejects(i)
    \/ \E i \in 1..Len(requests) : FetchResolves(i)
    \/ \E i \in 1..Len(requests) : ResponseBodyRead(i)
    \/ RemoteClearAll

RemoteSpec == Init /\ [][RemoteNext]_vars

\* invocation i of parseSQL goes one stage on: what a step FetchRejects(i),
\* FetchResolves(i) or ResponseBodyRead(i) does to requests, and no other
\* step of RemoteNext does
Continue(i) ==
    /\ i \in DOMAIN requests
    /\ \/ /\ requests[i].stage = "fetch"
          /\ \E ok \in BOOLEAN :
             \E body \in IF ok THEN OkBodies ELSE ErrorBodies :
                requests' = [requests EXCEPT ![i] = Request(@.sql, "json", ok, body, FALSE)]
       \/ /\ requests[i].stage # "done"
          /\ \E failed \in BOOLEAN : requests' = [requests EXCEPT ![i] = Done(@, failed)]

\* every remote call settles, and the event loop runs the continuation of
\* an `await` whose promise has settled
RemoteFairSpec == RemoteSpec /\ \A i \in 1..MaxRequests : WF_requests(Continue(i))

-----------------------------------------------------------------------------
(* Properties of the graph of the page.  query is the text of the last     *)
(* parse and currentData the graph made from it.                           *)

Shown == ~currentData.isNull

NodeIds(g) == { g.nodes[k].id : k \in DOMAIN g.nodes }

NodesOfType(g, type) == { k \in DOMAIN g.nodes : g.nodes[k].type = type }

HasEdge(g, source, target, type) ==
    \E k \in DOMAIN g.edges :
        /\ g.edges[k].source = source
        /\ g.edges[k].target = target
        /\ g.edges[k].type = type

EdgeTypes(g) == { g.edges[k].type : k \in DOMAIN g.edges }

\* no edge of g has a source or a target that is not the id of a node of g
NoDanglingEdge(g) ==
    \A k \in DOMAIN g.edges :
        /\ g.edges[k].source \in NodeIds(g)
        /\ g.edges[k].target \in NodeIds(g)

\* C1: the graph that parseSQL of script.js assembles from a remote response,
\* stores in currentData and hands to the details and JSON panes holds no
\* edge whose source or target is not the id of one of its nodes.
C1_NoDanglingEdgeStored ==
    /\ NoDanglingEdge(currentData)
    /\ NoDanglingEdge(views.details)
    /\ NoDanglingEdge(views.json)

\* C2: every edge of the graph returned by generateVisualizationData has a
\* source and a target that are ids of nodes of the returned nodes list.
C2_NoDanglingEdge ==
    Shown =>
        \A k \in DOMAIN currentData.edges :
            /\ currentData.edges[k].source \in NodeIds(currentData)
            /\ currentData.edges[k].target \in NodeIds(currentData)

\* a graph with provides, flows_to, uses and constrains edges
C2_Witness ==
    /\ Shown
    /\ { "provides", "flows_to", "uses", "constrains" } \subseteq EdgeTypes(currentData)

\* C3: the nodes list holds at most one node per (type, name) pair, the
\* names being compared without regard to letter case: no two table nodes
\* and no two column nodes (alias nodes are column nodes) have the same name.
C3_OneNodePerTypeAndName ==
    Shown =>
        \A i, j \in DOMAIN currentData.nodes :
            (/\ i # j
             /\ currentData.nodes[i].type = currentData.nodes[j].type)
                => LowerSeq(currentData.nodes[i].name) # LowerSeq(currentData.nodes[j].name)

\* C4: the graph of a long-lived instance for a text is the graph a fresh
\* parser and visualizer (no tables from earlier calls) return for it.
C4_SameAsFreshInstance ==
    Shown => currentData = generateVisualizationData(query, parseSQL(<<>>, query))

\* the text under study was parsed after another statement with other tables
C4_Witness ==
    /\ Shown
    /\ calls >= 2
    /\ query \in Inputs
    /\ Len(tables) = 1 /\ tables[1] = "users"

\* SELECT <a>.<c> FROM <t> <a>
IsAliasedColumnSelect(q) ==
    /\ Len(q) = 11
    /\ Upper(q[1]) = "SELECT" /\ q[2] = SP
    /\ IsIdent(q[3]) /\ q[4] = "." /\ IsIdent(q[5])
    /\ q[6] = SP /\ Upper(q[7]) = "FROM" /\ q[8] = SP
    /\ IsIdent(q[9]) /\ q[10] = SP /\ q[11] = q[3]

\* C5: for SELECT <a>.<c> FROM <t> <a> the graph has exactly one table node,
\* named <t>, exactly one column node, named for <c> of <t>, a provides edge
\* from the table node to the column node and a flows_to edge from the
\* column node to the query node.
C5_AliasResolution ==
    (Shown /\ IsAliasedColumnSelect(query)) =>
        /\ Cardinality(NodesOfType(currentData, "table")) = 1
        /\ Cardinality(NodesOfType(currentData, "column")) = 1
        /\ \A t \in NodesOfType(currentData, "table") :
           \A c \in NodesOfType(currentData, "column") :
                /\ currentData.nodes[t].name = <<query[9]>>
                /\ currentData.nodes[c].name = <<query[9], SP, ">", SP, query[5]>>
                /\ currentData.nodes[c].originalQualifiedName = <<query[9], ".", query[5]>>
                /\ HasEdge(currentData, currentData.nodes[t].id,
                           currentData.nodes[c].id, "provides")
                /\ HasEdge(currentData, currentData.nodes[c].id,
                           mainQueryNodeId, "flows_to")
                /\ \E n \in DOMAIN currentData.nodes :
                        /\ currentData.nodes[n].id = mainQueryNodeId
                        /\ currentData.nodes[n].type = "query"

C5_Witness ==
    /\ Shown
    /\ IsAliasedColumnSelect(query)
    /\ query[9] = "orders" /\ query[3] = "u"

\* the ids of the column nodes made for the qualified name `qualified`
ColumnNodeIds(g, qualified) ==
    { g.nodes[k].id :
        k \in { n \in NodesOfType(g, "column") :
                  /\ ~g.nodes[n].isAlias
                  /\ LowerSeq(g.nodes[n].originalQualifiedName) = LowerSeq(qualified) } }

\* the ids of the nodes of type `type` named `name`
NamedNodeIds(g, type, name) ==
    { g.nodes[k].id : k \in { n \in NodesOfType(g, type) : g.nodes[n].name = name } }

\* the qualified name of the reference <x>.<c> at i, the alias resolved
ResolvedColumn(q, i) == <<Resolve(extractTableAliases(q), q[i]), ".", q[i + 2]>>

\* <x>.<a> = <y>.<b> at i, behind an ON
QualifiedEqualityAt(q, i) ==
    /\ i + 8 <= Len(q)
    /\ IsIdent(q[i]) /\ q[i + 1] = "." /\ IsIdent(q[i + 2])
    /\ q[i + 3] = SP /\ q[i + 4] = "=" /\ q[i + 5] = SP
    /\ IsIdent(q[i + 6]) /\ q[i + 7] = "." /\ IsIdent(q[i + 8])
    /\ \E j \in 1..(i - 1) : Upper(q[j]) = "ON"

HasJoinEdge(g, source, target) ==
    \E k \in DOMAIN g.edges :
        /\ g.edges[k].source = source
        /\ g.edges[k].target = target
        /\ g.edges[k].type = "uses"
        /\ g.edges[k].label # ""

\* C6: for every equality between two qualified columns in an ON clause the
\* graph has two uses edges with a join label, left column to right column
\* and right column to left column, whatever the form of the joined table's
\* alias and also when the ON clause ends the statement.
C6_JoinSymmetry ==
    Shown =>
        \A i \in 1..Len(query) :
            QualifiedEqualityAt(query, i) =>
                \E l \in ColumnNodeIds(currentData, ResolvedColumn(query, i)),
                   r \in ColumnNodeIds(currentData, ResolvedColumn(query, i + 6)) :
                    /\ HasJoinEdge(currentData, l, r)
                    /\ HasJoinEdge(currentData, r, l)

\* the SELECT item <x>.<c> AS <alias> at i, <x> being a table or alias of
\* the statement
AliasedColumnItemAt(q, i) ==
    /\ i >= 3 /\ i + 6 <= Len(q)
    /\ q[i - 1] = SP /\ (Upper(q[i - 2]) = "SELECT" \/ q[i - 2] = ",")
    /\ IsIdent(q[i]) /\ q[i + 1] = "." /\ IsIdent(q[i + 2])
    /\ q[i + 3] = SP /\ Upper(q[i + 4]) = "AS" /\ q[i + 5] = SP
    /\ IsIdent(q[i + 6])
    /\ (i + 7 <= Len(q) => q[i + 7] \in { ",", SP })
    /\ MapHas(extractTableAliases(q), Lower(q[i]))

\* C7: for every SELECT item <qualified column> AS <alias> the graph has an
\* alias node for <alias>, a provides edge from the resolved table to the
\* underlying column, a flows_to edge from the underlying column to the
\* alias node and a flows_to edge from the alias node to the query node.
C7_AliasedProjectionChain ==
    Shown =>
        \A i \in 1..Len(query) :
            AliasedColumnItemAt(query, i) =>
                \E a \in NamedNodeIds(currentData, "column", <<Lower(query[i + 6])>>),
                   c \in ColumnNodeIds(currentData, ResolvedColumn(query, i)),
                   t \in NamedNodeIds(currentData, "table",
                                      <<Resolve(extractTableAliases(query), query[i])>>) :
                    /\ HasEdge(currentData, t, c, "provides")
                    /\ HasEdge(currentData, c, a, "flows_to")
                    /\ HasEdge(currentData, a, mainQueryNodeId, "flows_to")

\* SELECT * FROM <t>
IsSelectStar(q) ==
    /\ Len(q) = 7
    /\ Upper(q[1]) = "SELECT" /\ q[2] = SP /\ q[3] = "*" /\ q[4] = SP
    /\ Upper(q[5]) = "FROM" /\ q[6] = SP /\ IsIdent(q[7])

\* C8: for SELECT * FROM <t> the graph has exactly one column node, named *,
\* with a provides edge from the table node <t> to it and a flows_to edge
\* from it to the query node.
C8_SelectStar ==
    (Shown /\ IsSelectStar(query)) =>
        /\ Cardinality(NodesOfType(currentData, "column")) = 1
        /\ \A c \in NodesOfType(currentData, "column") :
                /\ currentData.nodes[c].name = <<"*">>
                /\ HasEdge(currentData, currentData.nodes[c].id, mainQueryNodeId,
                           "flows_to")
                /\ \E t \in NamedNodeIds(currentData, "table", <<query[7]>>) :
                        HasEdge(currentData, t, currentData.nodes[c].id, "provides")

\* C9: no table, column or alias node has a name that is, without regard to
\* letter case, a keyword of the parser's keyword list.
C9_NoKeywordNode ==
    Shown =>
        \A k \in DOMAIN currentData.nodes :
            currentData.nodes[k].type # "query" => ~isSQLKeyword(currentData.nodes[k].name)

\* the place of a node in the order the specification gives: tables,
\* columns, alias nodes, the query node
StatedRank(node) ==
    IF node.type = "table" THEN 1
    ELSE IF node.type = "query" THEN 4
    ELSE IF node.isAlias THEN 3
    ELSE 2

\* C10 as stated: the nodes list holds all table nodes first, then the
\* column nodes, then the alias nodes, and the query node last.
C10_QueryNodeLast ==
    Shown =>
        \A i, j \in DOMAIN currentData.nodes :
            i < j => StatedRank(currentData.nodes[i]) <= StatedRank(currentData.nodes[j])

\* the place of a node in the order of creation: the query node, tables,
\* qualified columns, unqualified and * columns of the SELECT list, aliases
CreationRank(node) ==
    IF node.type = "query" THEN 0
    ELSE IF node.type = "table" THEN 1
    ELSE IF node.isAlias THEN 4
    ELSE IF Includes(node.originalQualifiedName, ".") THEN 2
    ELSE 3

\* the first token of the table reference that ends at i
TableRefStart(q, i) == IF i >= 3 /\ q[i - 1] = "." /\ IsIdent(q[i - 2]) THEN i - 2 ELSE i

\* the table reference `name`, with or without a schema, behind a FROM or
\* JOIN ends at i
TableRefAt(q, i, name) ==
    /\ q[i] = name
    /\ \E k \in 1..(i - 2) :
          /\ Upper(q[k]) \in { "FROM", "JOIN" }
          /\ KwTableAt(q, k, Upper(q[k]))
          /\ TableRefEnd(q, SkipWs(q, k + 1)) = i

\* the reference at i resolves to the qualified name oqn
ColumnRefAt(q, i, tableAliases, oqn) ==
    /\ i + 2 <= Len(q)
    /\ IsIdent(q[i]) /\ q[i + 1] = "." /\ IsIdent(q[i + 2])
    /\ LowerSeq(<<Resolve(tableAliases, q[i]), ".", q[i + 2]>>) = LowerSeq(oqn)

\* the table reference `name` behind a JOIN ends at i
JoinRefAt(q, i, name) ==
    TableRefAt(q, i, name) /\ Upper(q[SkipWsBack(q, TableRefStart(q, i) - 1)]) = "JOIN"

\* `name` is the table of the FROM clause
IsFromTable(q, name) ==
    FirstKwTable(q, 1, "FROM") # 0 /\ KwTableName(q, FirstKwTable(q, 1, "FROM")) = name

\* the FROM table comes first, the JOIN tables at their places in the text
TablePositions(q, name) ==
    IF IsFromTable(q, name) THEN { 0 } ELSE { i \in 1..Len(q) : JoinRefAt(q, i, name) }

\* the positions of the text at which the table or qualified column of the
\* node is referred to
RefPositions(q, tableAliases, node) ==
    IF node.type = "table"
    THEN TablePositions(q, node.name[1])
    ELSE { i \in 1..Len(q) : ColumnRefAt(q, i, tableAliases, node.originalQualifiedName) }

Least(S) == CHOOSE x \in S : \A y \in S : x <= y

\* node a is first referred to in the text before node b is
SeenBefore(q, tableAliases, a, b) ==
    /\ RefPositions(q, tableAliases, a) # {}
    /\ RefPositions(q, tableAliases, b) # {}
    /\ Least(RefPositions(q, tableAliases, a)) < Least(RefPositions(q, tableAliases, b))

InCreationOrder(q, tableAliases, a, b) ==
    /\ CreationRank(a) <= CreationRank(b)
    /\ (CreationRank(a) = CreationRank(b) /\ CreationRank(a) \in { 1, 2 })
            => SeenBefore(q, tableAliases, a, b)

AllInCreationOrder(q, tableAliases, nodes) ==
    \A i, j \in DOMAIN nodes : i < j => InCreationOrder(q, tableAliases, nodes[i], nodes[j])

\* C10 as amended: the query node is the first node, single; then come the
\* table nodes (FROM table, then JOIN tables in statement order), the
\* qualified column nodes in first-seen order, the unqualified and * column
\* nodes of the SELECT list and the alias nodes; the ids are numbered in
\* this order.
C10_QueryNodeFirst ==
    Shown =>
        /\ currentData.nodes[1].id = mainQueryNodeId
        /\ Cardinality(NodesOfType(currentData, "query")) = 1
        /\ AllInCreationOrder(query, extractTableAliases(query), currentData.nodes)
        /\ \A j \in 2..Len(currentData.nodes) :
            \E prefix \in { "table", "col", "alias" } :
                currentData.nodes[j].id = NodeId(prefix, j - 2)

\* a graph with two tables, two qualified columns, an unqualified column and
\* an alias node
C10_Witness ==
    /\ Shown
    /\ { CreationRank(currentData.nodes[k]) : k \in DOMAIN currentData.nodes } = 0..4
    /\ Cardinality(NodesOfType(currentData, "table")) >= 2
    /\ Len(currentData.nodes) >= 7

\* C11: whenever an invocation of parseSQL of script.js ends after its fetch
\* rejected or was answered with a status outside 2xx, no error has been
\* shown for it and a graph is displayed.
C11_FailureFallsBack ==
    [][\A i \in 1..Len(requests) :
        (/\ requests[i].stage # "done"
         /\ requests'[i].stage = "done"
         /\ ~requests'[i].ok)
            => (/\ ~requests'[i].failed
                /\ errorMsg' = errorMsg
                /\ ~currentData'.isNull
                /\ ~views'.graph.isNull)]_vars

\* the text holds the keyword FROM
HasFrom(q) == \E i \in 1..Len(q) : Upper(q[i]) = "FROM"

\* C12: SQLLineageParser.parseSQL and generateVisualizationData never raise
\* (the catch block of parseSQLAndVisualize shows no error), and the graph
\* of a statement without FROM clause has no table node, whatever JOIN,
\* UPDATE or INSERT fragments the text holds.
C12_NoFromNoTable ==
    /\ errorMsg \in { "", "Please enter a SQL query" }
    /\ (Shown /\ ~HasFrom(query)) => NodesOfType(currentData, "table") = {}

\* C13: the ids of the nodes of the graph returned by
\* generateVisualizationData are pairwise distinct, and exactly one node has
\* the type query.
C13_DistinctIds ==
    Shown =>
        /\ \A i, j \in DOMAIN currentData.nodes :
                i # j => currentData.nodes[i].id # currentData.nodes[j].id
        /\ Cardinality(NodesOfType(currentData, "query")) = 1

\* a graph of a text under study with two tables, three columns and two
\* alias nodes
C13_Witness ==
    /\ Shown
    /\ query \in Inputs
    /\ Cardinality(NodesOfType(currentData, "table")) = 2
    /\ Cardinality({ k \in DOMAIN currentData.nodes : currentData.nodes[k].isAlias }) = 2
    /\ Cardinality({ k \in NodesOfType(currentData, "column") :
                        ~currentData.nodes[k].isAlias }) >= 3

\* C14: the edges list returned by generateVisualizationData never holds two
\* edges with the same source, target and type.
C14_NoDuplicateEdge ==
    Shown =>
        \A i, j \in DOMAIN currentData.edges :
            (/\ currentData.edges[i].source = currentData.edges[j].source
             /\ currentData.edges[i].target = currentData.edges[j].target
             /\ currentData.edges[i].type = currentData.edges[j].type)
                => i = j

\* C15: for every table introduced in FROM or JOIN (every table node) the
\* graph returned by generateVisualizationData holds a sources edge from
\* the node of the table to the query node.
C15_SourcesEdge ==
    Shown =>
        \A k \in NodesOfType(currentData, "table") :
            HasEdge(currentData, currentData.nodes[k].id, mainQueryNodeId, "sources")

\* position i of q lies in the clause opened by the keyword kw, which ends
\* at the first of the words `stops`, at a semicolon or with the text
InClause(q, kw, stops, i) ==
    \E w \in 1..(i - 1) :
        /\ Upper(q[w]) = kw
        /\ \A m \in (w + 1)..i : Upper(q[m]) \notin stops /\ q[m] # ";"

\* a qualified column reference <qualifier>.<column> starts at i
QualifiedAt(q, i) ==
    i + 2 <= Len(q) /\ IsIdent(q[i]) /\ q[i + 1] = "." /\ IsIdent(q[i + 2])

\* the column referred to at i has a node with a constrains edge to the
\* query node
ConstrainsFrom(q, i, tableAliases, g) ==
    \E k \in NodesOfType(g, "column") :
        /\ ColumnRefAt(q, i, tableAliases, g.nodes[k].originalQualifiedName)
        /\ HasEdge(g, g.nodes[k].id, mainQueryNodeId, "constrains")

WhereConstrains(q, tableAliases, g) ==
    \A i \in 1..Len(q) :
        (QualifiedAt(q, i) /\ InClause(q, "WHERE", { "GROUP", "ORDER", "HAVING", "LIMIT" }, i))
            => ConstrainsFrom(q, i, tableAliases, g)

HavingConstrains(q, tableAliases, g) ==
    \A i \in 1..Len(q) :
        (QualifiedAt(q, i) /\ InClause(q, "HAVING", { "ORDER", "LIMIT" }, i))
            => ConstrainsFrom(q, i, tableAliases, g)

\* C16: every column referred to in the WHERE clause and every column
\* referred to in the HAVING clause has a constrains edge from its node to
\* the query node in the graph returned by generateVisualizationData.
C16_WhereHavingConstrains ==
    Shown =>
        /\ WhereConstrains(query, extractTableAliases(query), currentData)
        /\ HavingConstrains(query, extractTableAliases(query), currentData)

\* the statement is UPDATE <t> ... or INSERT INTO <t> ...
IsUpdate(q) == KwTableAt(q, 1, "UPDATE")
IsInsertInto(q) == InsertAt(q, 1)

\* its target table <t>
ModifiedTable(q) ==
    IF IsUpdate(q) THEN q[SkipWs(q, 2)] ELSE q[SkipWs(q, SkipWs(q, 2) + 1)]

\* the modifies edges from the query node to the node with this id
ModifiesEdgesTo(g, id) ==
    { e \in DOMAIN g.edges :
        /\ g.edges[e].source = mainQueryNodeId
        /\ g.edges[e].target = id
        /\ g.edges[e].type = "modifies" }

\* C17: for a statement UPDATE <t> ... or INSERT INTO <t> ... the graph
\* returned by generateVisualizationData holds a table node for <t> and
\* exactly one modifies edge from the query node to it, whether or not <t>
\* appears in a FROM or JOIN clause.
C17_ModifiesTarget ==
    (Shown /\ (IsUpdate(query) \/ IsInsertInto(query))) =>
        \E k \in NodesOfType(currentData, "table") :
            /\ currentData.nodes[k].name = <<ModifiedTable(query)>>
            /\ Cardinality(ModifiesEdgesTo(currentData, currentData.nodes[k].id)) = 1

\* the SELECT item at i is a single bare identifier that is no keyword
BareItemAt(q, i) ==
    /\ i >= 3 /\ i + 1 <= Len(q)
    /\ IsIdent(q[i]) /\ ~isSQLKeyword(<<q[i]>>)
    /\ IsWs(q[i - 1]) /\ (Upper(q[i - 2]) = "SELECT" \/ q[i - 2] = ",")
    /\ (q[i + 1] = "," \/ (IsWs(q[i + 1]) /\ Kw(q, i + 2, "FROM")))

\* the node of the first table introduced in FROM provides the column node
\* named c, which flows to the query node
BareColumnAttributed(g, q, f, c) ==
    \E t \in NodesOfType(g, "table"), k \in NodesOfType(g, "column") :
        /\ f # 0 /\ g.nodes[t].name = <<KwTableName(q, f)>>
        /\ g.nodes[k].name = <<c>> /\ ~g.nodes[k].isAlias
        /\ HasEdge(g, g.nodes[t].id, g.nodes[k].id, "provides")
        /\ HasEdge(g, g.nodes[k].id, mainQueryNodeId, "flows_to")

\* C18: a SELECT item that is a single bare identifier and no keyword gets
\* a column node with a provides edge from the node of the first table
\* introduced in FROM and a flows_to edge to the query node.
C18_BareColumnAttribution ==
    Shown =>
        \A i \in 1..Len(query) :
            BareItemAt(query, i)
                => BareColumnAttributed(currentData, query,
                                        FirstKwTable(query, 1, "FROM"), query[i])

\* a FROM or JOIN target stands at t
TargetAt(q, t) == TableRefAt(q, t, q[t]) /\ IsIdent(q[t])

\* the target at t is written with no alias: the text ends after it, or a
\* semicolon or a keyword other than AS follows
NoAliasAt(q, t) ==
    \/ SkipWs(q, t + 1) > Len(q)
    \/ q[SkipWs(q, t + 1)] = ";"
    \/ (isSQLKeyword(<<q[SkipWs(q, t + 1)]>>) /\ Upper(q[SkipWs(q, t + 1)]) # "AS")

\* the alias introduced for the target at t stands at a
AliasOfTargetAt(q, t, a) ==
    /\ a > t /\ a <= Len(q) /\ IsIdent(q[a]) /\ ~isSQLKeyword(<<q[a]>>)
    /\ \/ a = SkipWs(q, t + 1)
       \/ (Kw(q, SkipWs(q, t + 1), "AS") /\ a = SkipWs(q, SkipWs(q, t + 1) + 1))

\* key is the lower-case form of a table name or alias the text introduces
Introduced(q, key) ==
    \E t \in 1..Len(q) :
        /\ TargetAt(q, t)
        /\ \/ key = Lower(q[t])
           \/ \E a \in (t + 1)..Len(q) : AliasOfTargetAt(q, t, a) /\ key = Lower(q[a])

AliasMapAsStated(q, aliases) ==
    /\ \A t \in 1..Len(q) :
            (TargetAt(q, t) /\ NoAliasAt(q, t))
                => (MapHas(aliases, Lower(q[t])) /\ aliases[Lower(q[t])] = q[t])
    /\ \A key \in DOMAIN aliases : Introduced(q, key)
    /\ \A key \in DOMAIN aliases :
            Resolve(aliases, Upper(key)) = aliases[key]

\* C19: for a FROM or JOIN target without alias, whatever follows it,
\* extractTableAliases maps the lower-case table name to the table name;
\* every key of the map is the lower-case form of an alias or table name
\* the statement introduces; a lookup through the map disregards letter case.
C19_AliasMapKeys ==
    query # <<>> => AliasMapAsStated(query, extractTableAliases(query))

\* where the alias of the target at t stands, if it has one
AliasPos(q, t) ==
    IF Kw(q, SkipWs(q, t + 1), "AS")
    THEN SkipWs(q, SkipWs(q, t + 1) + 1)
    ELSE SkipWs(q, t + 1)

\* the FROM and JOIN targets that are given an alias
AliasedTargets(q) ==
    { t \in 1..Len(q) : TargetAt(q, t) /\ AliasOfTargetAt(q, t, AliasPos(q, t)) }

\* the table at t1 is introduced again at t2, under another alias
SelfJoinAt(q, t1, t2) ==
    /\ t1 < t2 /\ q[t1] = q[t2]
    /\ Lower(q[AliasPos(q, t1)]) # Lower(q[AliasPos(q, t2)])

\* the reference <alias>.<c> at i is resolved to the table named name: its
\* column node is provided by the single table node of that name
ResolvedToSingleTable(g, q, i, name) ==
    \E t \in NodesOfType(g, "table"), k \in NodesOfType(g, "column") :
        /\ g.nodes[t].name = <<name>>
        /\ LowerSeq(g.nodes[k].originalQualifiedName) = LowerSeq(<<name, ".", q[i + 2]>>)
        /\ HasEdge(g, g.nodes[t].id, g.nodes[k].id, "provides")

SelfJoinResolved(g, q, t1, a1, a2) ==
    /\ Cardinality({ t \in NodesOfType(g, "table") : g.nodes[t].name = <<q[t1]>> }) = 1
    /\ \A i \in 1..Len(q) :
            (QualifiedAt(q, i) /\ Lower(q[i]) \in { Lower(q[a1]), Lower(q[a2]) })
                => ResolvedToSingleTable(g, q, i, q[t1])

\* C20: when one table name is introduced twice with different aliases,
\* generateVisualizationData makes exactly one table node for it, and the
\* column references through either alias resolve to that table, each
\* column node getting a provides edge from the single table node.
C20_SelfJoin ==
    Shown =>
        \A t1, t2 \in AliasedTargets(query) :
            SelfJoinAt(query, t1, t2)
                => SelfJoinResolved(currentData, query, t1,
                                    AliasPos(query, t1), AliasPos(query, t2))

\* x.c stands somewhere in the text, x being the word at a
RefersThrough(q, a) ==
    \E i \in 1..Len(q) : QualifiedAt(q, i) /\ Lower(q[i]) = Lower(q[a])

\* a self-join whose text refers to columns through both aliases
C20_Witness ==
    /\ Shown
    /\ \E t1, t2 \in AliasedTargets(query) :
            /\ SelfJoinAt(query, t1, t2)
            /\ RefersThrough(query, AliasPos(query, t1))
            /\ RefersThrough(query, AliasPos(query, t2))
    /\ Cardinality(NodesOfType(currentData, "table")) = 1
    /\ Cardinality(NodesOfType(currentData, "column")) >= 3

\* the first FROM keyword of q outside every parenthesis, 0 if there is none
IsDepthZeroFrom(q, f) == Upper(q[f]) = "FROM" /\ ParenCount(q, f) = 0

DepthZeroFrom(q) == First(q, 1, IsDepthZeroFrom)

\* no part of a split SELECT clause ends inside a parenthesis
PartsBalanced(parts) ==
    \A j \in 1..Len(parts) : ParenCount(parts[j], Len(parts[j]) + 1) = 0

\* the SELECT clause is the text up to the FROM at f, its items are split
\* at depth zero, and the first table is the one behind the FROM at f
BoundariesAt(q, f, parserTables) ==
    /\ SelectClause(q) = SubSeq(q, 3, SkipWsBack(q, f - 1))
    /\ PartsBalanced(splitSelectClause(SelectClause(q)))
    /\ Len(parserTables) >= 1
    /\ parserTables[1] = q[TableRefEnd(q, SkipWs(q, f + 1))]

\* C21: a comma separates SELECT items only at parenthesis depth zero, the
\* SELECT clause ends at the FROM keyword of depth zero, and the FROM table
\* is the one behind that keyword: a FROM or a comma inside a function call
\* neither ends the clause nor splits an item.
C21_DepthZeroBoundaries ==
    (Shown /\ Kw(query, 1, "SELECT") /\ DepthZeroFrom(query) # 0)
        => BoundariesAt(query, DepthZeroFrom(query), tables)


\* position k of q starts a `--` comment
CommentStart(q, k) == k < Len(q) /\ q[k] = "-" /\ q[k + 1] = "-"

HasComment(q) == \E k \in 1..Len(q) : CommentStart(q, k)

IsLineEnd(q, k) == q[k] = NL

RECURSIVE StripComments(_, _)
\* q from position k on without the text from each `--` to the end of its line
StripComments(q, k) ==
    IF k > Len(q) THEN <<>>
    ELSE IF CommentStart(q, k)
         THEN LET e == First(q, k, IsLineEnd)
              IN  IF e = 0 THEN <<>> ELSE StripComments(q, e)
         ELSE <<q[k]>> \o StripComments(q, k + 1)

\* the graph the page builds for the text q
GraphOf(q) == generateVisualizationData(Trim(q), parseSQL(<<>>, Trim(q)))

\* C22: the graph of a statement with `--` comments equals the graph of the
\* statement with the comments removed; text from `--` to the end of its
\* line adds no table or column node.
C22_CommentsStripped ==
    (Shown /\ HasComment(query)) => currentData = GraphOf(StripComments(query, 1))


\* q separates two tokens by more than one space
HasWhitespaceRun(q) ==
    \E k \in 1..Len(q) : q[k] = NL \/ (k < Len(q) /\ IsWs(q[k]) /\ IsWs(q[k + 1]))

\* C23: the graph of a statement does not depend on how its tokens are
\* separated: replacing every run of whitespace by one space gives the
\* identical graph, also when an ON or WHERE condition spans several lines.
C23_WhitespaceNormalized ==
    (Shown /\ HasWhitespaceRun(query)) => currentData = GraphOf(Collapse(query))


\* position p of q holds the schema of a FROM or JOIN target `schema.table`
SchemaAt(q, p) ==
    /\ p + 2 <= Len(q) /\ IsIdent(q[p]) /\ q[p + 1] = "." /\ IsIdent(q[p + 2])
    /\ \E i \in 1..(p - 1) :
          /\ Kw(q, i, "FROM") \/ Kw(q, i, "JOIN")
          /\ KwTableAt(q, i, Upper(q[i]))
          /\ SkipWs(q, i + 1) = p

SchemaPositions(q) == { p \in 1..Len(q) : SchemaAt(q, p) }

\* a node of g has the name <<table>> and the type Table
HasTableNamed(g, table) ==
    \E k \in NodesOfType(g, "table") : g.nodes[k].name = <<table>>

\* the name of a node of g contains the word
NameContains(g, word) ==
    \E k \in DOMAIN g.nodes : \E j \in DOMAIN g.nodes[k].name : g.nodes[k].name[j] = word

\* C24: for a FROM or JOIN target written `schema.table [alias]` the graph
\* has a Table node named `table` and no node of any kind whose name
\* contains the schema name; `schema.table` does not become a Column node.
C24_SchemaDropped ==
    Shown => \A p \in SchemaPositions(query) :
                /\ HasTableNamed(currentData, query[p + 2])
                /\ ~NameContains(currentData, query[p])


\* invocation number i of parseSQL has been started / has run to its end
Started(i) == i \in DOMAIN requests

Completed(i) == Started(i) /\ requests[i].stage = "done"

\* this step runs invocation i to its end
Completes(i) == Started(i) /\ ~Completed(i) /\ Completed(i)'

\* this step starts an invocation that goes on to its request
Submits == Len(requests') = Len(requests) + 1

\* C25: an invocation of parseSQL with non-blank input shows the loading
\* indicator and, once its remote call settles, hides it at its end on
\* every path (success, non-OK status, rejected fetch, unparsable body,
\* exception while normalizing or rendering); while the input is blank no
\* step shows the loading indicator or issues a request.
C25_LoadingEventuallyHidden ==
    /\ [][ /\ Submits => loading'
           /\ \A i \in 1..MaxRequests : Completes(i) => ~loading'
           /\ Trim(sqlInput) = <<>> => (~Submits /\ (loading' => loading)) ]_vars
    /\ \A i \in 1..MaxRequests : Started(i) ~> Completed(i)

\* an invocation ended by an exception of the rendering has hidden loading
C25_Witness ==
    /\ ~loading
    /\ \E i \in DOMAIN requests : Completed(i) /\ requests[i].failed
    /\ errorMsg = "Cannot read properties of null (reading 'toUpperCase')"


\* invocation i of parseSQL is awaiting its remote response
Awaiting(i) == Started(i) /\ ~Completed(i)

\* C26: whenever at least one parseSQL invocation is still awaiting its
\* remote response the loading indicator is visible, also when two
\* invocations overlap and one of them completes before the other.
C26_LoadingWhileAwaiting ==
    (\E i \in 1..MaxRequests : Awaiting(i)) => loading


\* invocation j has completed with success and its result is still the
\* current data (no clearAll since)
ResultShown(j) == Completed(j) /\ ~requests[j].failed /\ ~currentData.isNull

\* this step ends invocation i after the later invocation j has shown its
\* result
LateCompletion(i, j) == i < j /\ ResultShown(j) /\ Completes(i)

\* C27: once all parseSQL invocations have completed, currentData and the
\* graph, details and JSON shown are the result of the most recently
\* initiated successful invocation, whatever the order of the responses: a
\* response of an earlier invocation that arrives after a later invocation
\* has succeeded leaves them as they are.
C27_LatestInvocationWins ==
    [][\A i, j \in 1..MaxRequests :
          LateCompletion(i, j) => (currentData' = currentData /\ views' = views)]_vars


\* the response of invocation i has been received with a body that yields
\* no node, so validateAndNormalizeData goes through createSampleDataFromSQL
BuildsSample(i) ==
    /\ Started(i) /\ requests[i].stage = "json"
    /\ Thrown(requests[i]) = ""
    /\ Len(requests[i].body.nodes) = 0
    /\ Len(NormalizedNodes(requests[i].body, <<>>)) = 0

\* the graph built from the text that invocation i submitted
SampleOfSubmitted(i) ==
    createSampleDataFromSQL(NormalizedEdges(requests[i].body), requests[i].sql)

\* C28: the graph a parseSQL invocation builds through
\* createSampleDataFromSQL is derived from the SQL text this invocation
\* submitted in its request, even if the sql-input field was edited or
\* cleared between the request and the response.
C28_SampleFromSubmittedText ==
    [][\A i \in 1..MaxRequests :
          (BuildsSample(i) /\ Completes(i)) => currentData' = SampleOfSubmitted(i)]_vars


\* currentData is null and the three panes show their placeholders
Cleared == currentData.isNull /\ views = Placeholders

\* the textarea is as clearAll left it: parseSQL returns early on it, so no
\* invocation has been initiated since
Emptied == sqlInput = <<>>

\* C29: after clearAll has run, currentData stays null and the graph,
\* details and JSON views stay at their placeholders until a new parseSQL
\* invocation is initiated, also when an invocation started before clearAll
\* receives its response afterwards: while the textarea is still empty, no
\* step ends the cleared state.
C29_ClearedStaysCleared ==
    [][(Emptied /\ Cleared) => Cleared']_vars


\* the response of invocation i has been received and its body holds a
\* nodes array
HasNodesArray(i) ==
    /\ Started(i) /\ requests[i].stage = "json"
    /\ Thrown(requests[i]) = ""
    /\ "nodes" \in requests[i].body.has

\* every node of g carries a non-empty id, name and type, and every edge a
\* type
WellFormed(g) ==
    /\ \A n \in DOMAIN g.nodes :
          Truthy(g.nodes[n].id) /\ Truthy(g.nodes[n].name) /\ Truthy(g.nodes[n].type)
    /\ \A e \in DOMAIN g.edges : Truthy(g.edges[e].type)

\* C30: for every remote response that has a nodes array,
\* validateAndNormalizeData returns nodes that each carry a non-empty id,
\* name and type and edges that each carry a type, also when the response
\* supplies those fields explicitly as null or as the empty string.
C30_NormalizedWellFormed ==
    [][\A i \in 1..MaxRequests :
          (HasNodesArray(i) /\ Completes(i)) => WellFormed(currentData')]_vars

=============================================================================
